---------------------------- MODULE Spec2Model ----------------------------
(***************************************************************************)
(* Model of the bank statement import function (src/unnamed/part_000):     *)
(* the request handler, extractTextWithOpenAI, extractTextFromPDF,         *)
(* parseBCAStatement and parseAmount.                                      *)
(*                                                                         *)
(* Strings are sequences of one-character strings.  Numbers produced by    *)
(* parseFloat are exact decimals [nan, ip, fp]: ip the digits of the       *)
(* integer part without leading zeros, fp the digits of the fraction       *)
(* without trailing zeros (a double holds them exactly up to 15            *)
(* significant digits).                                                    *)
(***************************************************************************)
EXTENDS Integers, Sequences, FiniteSets, TLC

-----------------------------------------------------------------------------
(* Characters and strings *)

Chars(s) == [k \in 1..Len(s) |-> SubSeq(s, k, k)]

DigitChars == Chars("0123456789")
LowerChars == Chars("abcdefghijklmnopqrstuvwxyz")
UpperChars == Chars("ABCDEFGHIJKLMNOPQRSTUVWXYZ")

Range(f) == {f[k] : k \in DOMAIN f}

DigitSet == Range(DigitChars)
IsDigit(c) == c \in DigitSet
DigitVal(c) == (CHOOSE k \in 1..10 : DigitChars[k] = c) - 1
DigitChar(d) == DigitChars[d + 1]

\* \s of the regular expressions and the characters String.trim removes
SpaceSet == {" ", "\t", "\n", "\r", "\f"}
IsSpace(c) == c \in SpaceSet

\* \w of the regular expressions
WordSet == Range(DigitChars) \cup Range(LowerChars) \cup Range(UpperChars) \cup {"_"}
IsWordChar(c) == c \in WordSet

\* canonical form of a character under the i flag
ToUpper(c) ==
  IF c \in Range(LowerChars)
    THEN UpperChars[CHOOSE k \in 1..26 : LowerChars[k] = c]
    ELSE c

UpperStr(s) == [k \in 1..Len(s) |-> ToUpper(s[k])]

\* number of positions of s holding c
Count(s, c) == Cardinality({k \in 1..Len(s) : s[k] = c})

\* s without the characters c
RemoveAll(s, c) == SelectSeq(s, LAMBDA x : x # c)

\* String.replace(c, d) with a string pattern: the first occurrence only
ReplaceFirst(s, c, d) ==
  IF \E k \in 1..Len(s) : s[k] = c
    THEN LET p == CHOOSE k \in 1..Len(s) : s[k] = c /\ \A m \in 1..(k - 1) : s[m] # c
         IN  [k \in 1..Len(s) |-> IF k = p THEN d ELSE s[k]]
    ELSE s

\* s with its last occurrence of c replaced by d
ReplaceLast(s, c, d) ==
  IF \E k \in 1..Len(s) : s[k] = c
    THEN LET p == CHOOSE k \in 1..Len(s) : s[k] = c /\ \A m \in (k + 1)..Len(s) : s[m] # c
         IN  [k \in 1..Len(s) |-> IF k = p THEN d ELSE s[k]]
    ELSE s

\* length of the longest run of characters of the set cls in s from position p on
RunLen(s, p, cls) ==
  IF p > Len(s)
    THEN 0
    ELSE (CHOOSE q \in p..(Len(s) + 1) :
            /\ q = Len(s) + 1 \/ s[q] \notin cls
            /\ \A m \in p..(q - 1) : s[m] \in cls) - p

\* w occurs in s at position p
MatchAt(s, p, w) ==
  /\ p >= 1
  /\ p + Len(w) - 1 <= Len(s)
  /\ \A k \in 1..Len(w) : s[p + k - 1] = w[k]

-----------------------------------------------------------------------------
(* Decimal numbers *)

RECURSIVE StripLeadingZeros(_)
StripLeadingZeros(ds) ==
  IF ds # <<>> /\ Head(ds) = 0 THEN StripLeadingZeros(Tail(ds)) ELSE ds

RECURSIVE StripTrailingZeros(_)
StripTrailingZeros(ds) ==
  IF ds # <<>> /\ ds[Len(ds)] = 0
    THEN StripTrailingZeros(SubSeq(ds, 1, Len(ds) - 1))
    ELSE ds

MkDec(ipDigits, fpDigits) ==
  [nan |-> FALSE, ip |-> StripLeadingZeros(ipDigits), fp |-> StripTrailingZeros(fpDigits)]

Zero == [nan |-> FALSE, ip |-> <<>>, fp |-> <<>>]
NaN == [nan |-> TRUE, ip |-> <<>>, fp |-> <<>>]

DigitsOf(s) == [k \in 1..Len(s) |-> DigitVal(s[k])]

\* digit k of ds once ds is padded on the left to length n
PadLeftAt(ds, n, k) == IF k <= n - Len(ds) THEN 0 ELSE ds[k - (n - Len(ds))]
\* digit k of ds once ds is padded on the right
PadRightAt(ds, k) == IF k <= Len(ds) THEN ds[k] ELSE 0

Max(a, b) == IF a >= b THEN a ELSE b

\* the digits of a (integer part padded to ni, fraction to nf) as one sequence
Aligned(a, ni, nf) ==
  [k \in 1..(ni + nf) |-> IF k <= ni THEN PadLeftAt(a.ip, ni, k) ELSE PadRightAt(a.fp, k - ni)]

\* lexicographic order of two digit sequences of the same length
SeqLess(x, y) ==
  \E k \in 1..Len(x) : x[k] < y[k] /\ \A m \in 1..(k - 1) : x[m] = y[m]

\* a < b on numbers; every comparison with NaN is false
DecLess(a, b) ==
  /\ ~a.nan
  /\ ~b.nan
  /\ LET ni == Max(Len(a.ip), Len(b.ip))
         nf == Max(Len(a.fp), Len(b.fp))
     IN  SeqLess(Aligned(a, ni, nf), Aligned(b, ni, nf))

\* sum of two digit sequences of the same length, one digit longer
RECURSIVE AddDigits(_, _, _, _)
AddDigits(x, y, k, carry) ==
  IF k = 0
    THEN <<carry>>
    ELSE LET t == x[k] + y[k] + carry
         IN  Append(AddDigits(x, y, k - 1, t \div 10), t % 10)

\* a + b on numbers
DecAdd(a, b) ==
  IF a.nan \/ b.nan
    THEN NaN
    ELSE LET ni == Max(Len(a.ip), Len(b.ip))
             nf == Max(Len(a.fp), Len(b.fp))
             sum == AddDigits(Aligned(a, ni, nf), Aligned(b, ni, nf), ni + nf, 0)
         IN  MkDec(SubSeq(sum, 1, ni + 1), SubSeq(sum, ni + 2, ni + nf + 1))

-----------------------------------------------------------------------------
(* parseAmount *)

\* parseFloat on a string of digits, commas and periods: the longest prefix
\* digits [ "." digits ] holding at least one digit, NaN when there is none
parseFloat(s) ==
  LET n1 == RunLen(s, 1, DigitSet)
      dot == n1 + 1 <= Len(s) /\ s[n1 + 1] = "."
      n2 == IF dot THEN RunLen(s, n1 + 2, DigitSet) ELSE 0
  IN  IF n1 = 0 /\ n2 = 0
        THEN NaN
        ELSE MkDec(DigitsOf(SubSeq(s, 1, n1)), DigitsOf(SubSeq(s, n1 + 2, n1 + 1 + n2)))

\* x || 0 on a number: NaN and 0 are falsy
OrZero(x) == IF x.nan \/ x = Zero THEN Zero ELSE x

\* [0-9,\.] of the amount patterns
AmountSet == DigitSet \cup {",", "."}
IsAmountChar(c) == c \in AmountSet

\* Separators reading one period and one comma the other way round: the comma is dropped
SeparatorsCommaThousands(cleaned) ==
  LET dots == Count(cleaned, ".")
      commas == Count(cleaned, ",")
  IN  IF dots > 1 THEN ReplaceFirst(RemoveAll(cleaned, "."), ",", ".")
      ELSE IF commas > 1 THEN RemoveAll(cleaned, ",")
      ELSE IF dots = 1 /\ commas = 1 THEN RemoveAll(cleaned, ",")
      ELSE IF commas = 1 /\ dots = 0 THEN ReplaceFirst(cleaned, ",", ".")
      ELSE cleaned

\* Separators turning the last comma, not the first, into the decimal point
SeparatorsLastComma(cleaned) ==
  LET dots == Count(cleaned, ".")
      commas == Count(cleaned, ",")
  IN  IF dots > 1 THEN ReplaceLast(RemoveAll(cleaned, "."), ",", ".")
      ELSE IF commas > 1 THEN RemoveAll(cleaned, ",")
      ELSE IF dots = 1 /\ commas = 1 THEN ReplaceLast(RemoveAll(cleaned, "."), ",", ".")
      ELSE IF commas = 1 /\ dots = 0 THEN ReplaceLast(cleaned, ",", ".")
      ELSE cleaned

\* the separator policy of parseAmount: the string handed to parseFloat
Separators(cleaned) ==
  LET dots == Count(cleaned, ".")
      commas == Count(cleaned, ",")
  IN  IF dots > 1 THEN ReplaceFirst(RemoveAll(cleaned, "."), ",", ".")
      ELSE IF commas > 1 THEN RemoveAll(cleaned, ",")
      ELSE IF dots = 1 /\ commas = 1 THEN ReplaceFirst(RemoveAll(cleaned, "."), ",", ".")
      ELSE IF commas = 1 /\ dots = 0 THEN ReplaceFirst(cleaned, ",", ".")
      ELSE cleaned

\* parseAmount without the || 0
parseAmountNoDefault(str) ==
  IF str = <<>> THEN Zero ELSE parseFloat(Separators(SelectSeq(str, IsAmountChar)))

\* lines 540-550
parseAmount(str) ==
  IF str = <<>> THEN Zero ELSE OrZero(parseFloat(Separators(SelectSeq(str, IsAmountChar))))

-----------------------------------------------------------------------------
(* String operations used by parseBCAStatement *)

\* Array.join(sep)
RECURSIVE JoinWith(_, _)
JoinWith(strs, sep) ==
  IF strs = <<>> THEN <<>>
  ELSE IF Len(strs) = 1 THEN strs[1]
  ELSE LET h == Len(strs) \div 2
       IN  JoinWith(SubSeq(strs, 1, h), sep) \o sep \o JoinWith(SubSeq(strs, h + 1, Len(strs)), sep)

\* the k-th smallest element of a set of integers
Nth(S, k) == CHOOSE x \in S : Cardinality({y \in S : y < x}) = k - 1

\* the least element of a non-empty set of integers
Least(S) == CHOOSE x \in S : \A y \in S : x <= y

\* text.split(/\n/): the pieces between the line breaks
SplitLines(t) ==
  LET breaks == {p \in 1..Len(t) : t[p] = "\n"}
      n == Cardinality(breaks)
      from(k) == IF k = 1 THEN 1 ELSE Nth(breaks, k - 1) + 1
      to(k) == IF k = n + 1 THEN Len(t) ELSE Nth(breaks, k) - 1
  IN  [k \in 1..(n + 1) |-> SubSeq(t, from(k), to(k))]

RECURSIVE TrimEnd(_)
TrimEnd(s) ==
  IF s # <<>> /\ IsSpace(s[Len(s)]) THEN TrimEnd(SubSeq(s, 1, Len(s) - 1)) ELSE s

\* String.trim
Trim(s) == TrimEnd(SubSeq(s, RunLen(s, 1, SpaceSet) + 1, Len(s)))

\* text.split(/\n/).map(l => l.trim()).filter(l => l.length > 0)
SplitTrimmedLines(t) ==
  LET raw == SplitLines(t)
      trimmed == [k \in 1..Len(raw) |-> Trim(raw[k])]
  IN  SelectSeq(trimmed, LAMBDA l : Len(l) > 0)

\* parseInt on a string of digits (at most 9 of them)
RECURSIVE parseInt(_)
parseInt(s) ==
  IF s = <<>> THEN 0 ELSE 10 * parseInt(SubSeq(s, 1, Len(s) - 1)) + DigitVal(s[Len(s)])

\* String(n) for a natural number
RECURSIVE NatChars(_)
NatChars(n) ==
  IF n < 10 THEN <<DigitChar(n)>> ELSE Append(NatChars(n \div 10), DigitChar(n % 10))

\* String(n).padStart(2, '0')
Pad2(n) == IF n < 10 THEN <<"0">> \o NatChars(n) ELSE NatChars(n)

\* /^(\d{2})\/(\d{2})$/ on a line
DatePattern(line) ==
  /\ Len(line) = 5
  /\ IsDigit(line[1]) /\ IsDigit(line[2])
  /\ line[3] = "/"
  /\ IsDigit(line[4]) /\ IsDigit(line[5])

\* the date test of the main loop: the pattern, then the range check on day and mon
SeekDateLine(line) ==
  /\ DatePattern(line)
  /\ LET day == parseInt(SubSeq(line, 1, 2))
         mon == parseInt(SubSeq(line, 4, 5))
     IN  ~(day < 1 \/ day > 31 \/ mon < 1 \/ mon > 12)

\* NextDateLine without the range check
NextDateLineNoRange(nextLine) == DatePattern(nextLine)

\* the date test of the collecting loop: the pattern, then split('/') and the range check
NextDateLine(nextLine) ==
  /\ DatePattern(nextLine)
  /\ LET slash == Least({k \in 1..Len(nextLine) : nextLine[k] = "/"})
         testDay == parseInt(SubSeq(nextLine, 1, slash - 1))
         testMon == parseInt(SubSeq(nextLine, slash + 1, Len(nextLine)))
     IN  testDay >= 1 /\ testDay <= 31 /\ testMon >= 1 /\ testMon <= 12

\* s contains w, letters compared without case
ContainsNoCase(s, w) ==
  LET u == UpperStr(s)
      v == UpperStr(w)
  IN  \E p \in 1..(Len(u) - Len(v) + 1) : MatchAt(u, p, v)

NoiseWords ==
  {Chars("TANGGAL"), Chars("KETERANGAN"), Chars("CABANG"), Chars("MUTASI"),
   Chars("SALDO"), Chars("Halaman"), Chars("Bersambung")}

\* IsNoise with the words matched as they are spelled
IsNoiseExactCase(fullDescription) ==
  \E w \in NoiseWords : \E p \in 1..(Len(fullDescription) - Len(w) + 1) : MatchAt(fullDescription, p, w)

\* /TANGGAL|KETERANGAN|CABANG|MUTASI|SALDO|Halaman|Bersambung/i
IsNoise(fullDescription) == \E w \in NoiseWords : ContainsNoCase(fullDescription, w)

\* the successive matches of /([\d,\.]+)/g in s: the maximal runs, left to right
AmountTokens(s) ==
  LET starts == {p \in 1..Len(s) : s[p] \in AmountSet /\ (p = 1 \/ s[p - 1] \notin AmountSet)}
      tok(k) == LET p == Nth(starts, k) IN SubSeq(s, p, p + RunLen(s, p, AmountSet) - 1)
  IN  [k \in 1..Cardinality(starts) |-> tok(k)]

AmountLimit == MkDec(<<1, 0, 0, 0, 0, 0, 0, 0, 0, 0, 0, 0>>, <<>>)

\* Qualifies with the two ends of the range let in
QualifiesInclusive(amt) == ~DecLess(amt, Zero) /\ ~DecLess(AmountLimit, amt)

\* amt > 0 && amt < 100000000000
Qualifies(amt) == DecLess(Zero, amt) /\ DecLess(amt, AmountLimit)

\* the amounts array of a block
Amounts(textForAmounts) ==
  LET toks == AmountTokens(textForAmounts)
      amts == [k \in 1..Len(toks) |-> parseAmount(toks[k])]
  IN  SelectSeq(amts, Qualifies)

\* \b at the gap before position p of s
WordBoundary(s, p) ==
  LET before == p - 1 >= 1 /\ p - 1 <= Len(s) /\ IsWordChar(s[p - 1])
      after == p >= 1 /\ p <= Len(s) /\ IsWordChar(s[p])
  IN  before # after

\* IsCredit without the word boundaries
IsCreditSubstring(textForAmounts) ==
  \E p \in 1..Len(textForAmounts) : MatchAt(UpperStr(textForAmounts), p, Chars("CR"))

\* /\bCR\b/i.test(textForAmounts)
IsCredit(textForAmounts) ==
  LET u == UpperStr(textForAmounts)
  IN  \E p \in 1..Len(u) :
        /\ MatchAt(u, p, Chars("CR"))
        /\ WordBoundary(textForAmounts, p)
        /\ WordBoundary(textForAmounts, p + 2)

\* /\d{4}\/[\w\/]+/ matches s at position p
RefAt(s, p) ==
  /\ p + 5 <= Len(s)
  /\ \A k \in 0..3 : IsDigit(s[p + k])
  /\ s[p + 4] = "/"
  /\ s[p + 5] \in WordSet \cup {"/"}

\* the reference of a block: the leftmost match, as long as it can be, or ''
Reference(textForAmounts) ==
  LET starts == {p \in 1..Len(textForAmounts) : RefAt(textForAmounts, p)}
  IN  IF starts = {}
        THEN <<>>
        ELSE LET p == Least(starts)
                 n == RunLen(textForAmounts, p + 5, WordSet \cup {"/"})
             IN  SubSeq(textForAmounts, p, p + 4 + n)

-----------------------------------------------------------------------------
(* The pre-scan of parseBCAStatement *)

MonthNames ==
  <<Chars("JANUARI"), Chars("FEBRUARI"), Chars("MARET"), Chars("APRIL"), Chars("MEI"),
    Chars("JUNI"), Chars("JULI"), Chars("AGUSTUS"), Chars("SEPTEMBER"), Chars("OKTOBER"),
    Chars("NOVEMBER"), Chars("DESEMBER")>>

\* monthMap[name.toUpperCase()] || 1
MonthNumber(name) ==
  LET hits == {k \in 1..12 : MonthNames[k] = UpperStr(name)}
  IN  IF hits = {} THEN 1 ELSE Least(hits)

\* /PERIODE[:\s]+(JANUARI|...|DESEMBER)[\s]+(\d{4})/i tried at position p of t,
\* u being t in upper case: [ok, name, digits]
PeriodAt(t, u, p) ==
  LET q == p + 7
      n1 == RunLen(t, q, SpaceSet \cup {":"})
      r == q + n1
      names == {k \in 1..12 : MatchAt(u, r, MonthNames[k])}
      k == Least(names)
      q2 == r + Len(MonthNames[k])
      n2 == RunLen(t, q2, SpaceSet)
      y == q2 + n2
  IN  IF /\ MatchAt(u, p, Chars("PERIODE"))
         /\ n1 >= 1
         /\ names # {}
         /\ n2 >= 1
         /\ RunLen(t, y, DigitSet) >= 4
        THEN [ok |-> TRUE, name |-> SubSeq(t, r, q2 - 1), digits |-> SubSeq(t, y, y + 3)]
        ELSE [ok |-> FALSE, name |-> <<>>, digits |-> <<>>]

\* text.match of the period pattern: the leftmost match
PeriodMatch(t) ==
  LET u == UpperStr(t)
      hits == {p \in 1..Len(t) : PeriodAt(t, u, p).ok}
  IN  IF hits = {}
        THEN [ok |-> FALSE, name |-> <<>>, digits |-> <<>>]
        ELSE PeriodAt(t, u, Least(hits))

\* /SALDO[\s]+<word>[:\s]*([\d,\.]+)/i tried at position p of t, u being t in
\* upper case: [ok, token]
SaldoAt(t, u, word, p) ==
  LET q == p + 5
      n1 == RunLen(t, q, SpaceSet)
      r == q + n1
      q2 == r + Len(word)
      n2 == RunLen(t, q2, SpaceSet \cup {":"})
      a == q2 + n2
      n3 == RunLen(t, a, AmountSet)
  IN  IF /\ MatchAt(u, p, Chars("SALDO"))
         /\ n1 >= 1
         /\ MatchAt(u, r, word)
         /\ n3 >= 1
        THEN [ok |-> TRUE, token |-> SubSeq(t, a, a + n3 - 1)]
        ELSE [ok |-> FALSE, token |-> <<>>]

\* the balance after SALDO <word>, 0 when the pattern does not match
SaldoBalance(t, word) ==
  LET u == UpperStr(t)
      hits == {p \in 1..Len(t) : SaldoAt(t, u, word, p).ok}
  IN  IF hits = {} THEN Zero ELSE parseAmount(SaldoAt(t, u, word, Least(hits)).token)

\* the year the Date constructor uses: years 0..99 count from 1900
DateYear(y) == IF y <= 99 THEN 1900 + y ELSE y

IsLeap(y) == (y % 4 = 0 /\ y % 100 # 0) \/ y % 400 = 0

\* new Date(year, month, 0).getDate(): the last day of month (1..12) of year
LastDay(y, m) ==
  IF m = 2 THEN (IF IsLeap(DateYear(y)) THEN 29 ELSE 28)
  ELSE IF m \in {4, 6, 9, 11} THEN 30
  ELSE 31

\* DateString without the padding
DateStringUnpadded(y, m, d) == NatChars(y) \o <<"-">> \o NatChars(m) \o <<"-">> \o NatChars(d)

\* `${year}-${String(month).padStart(2, '0')}-${String(d).padStart(2, '0')}`
DateString(y, m, d) == NatChars(y) \o <<"-">> \o Pad2(m) \o <<"-">> \o Pad2(d)

Null == [null |-> TRUE]

-----------------------------------------------------------------------------
(* extractTextFromPDF *)

Backslash == "\\"

\* the number of backslashes right before position p of s
RECURSIVE BackslashesBefore(_, _)
BackslashesBefore(s, p) ==
  IF p > 1 /\ s[p - 1] = Backslash THEN 1 + BackslashesBefore(s, p - 1) ELSE 0

\* a match of the global pattern backslash-x starts at position p of s
EscapeAt(s, x, p) ==
  /\ p < Len(s)
  /\ s[p] = Backslash
  /\ s[p + 1] = x
  /\ (x = Backslash => BackslashesBefore(s, p) % 2 = 0)

\* s.replace(/\\x/g, repl): every match of backslash-x, left to right, becomes repl
ReplaceEscape(s, x, repl) ==
  LET piece(k) ==
        IF EscapeAt(s, x, k) THEN repl
        ELSE IF k > 1 /\ EscapeAt(s, x, k - 1) THEN <<>>
        ELSE <<s[k]>>
  IN  JoinWith([k \in 1..Len(s) |-> piece(k)], <<>>)

\* lines 319-325: the chain of replacements on a literal string
Unescape(t) ==
  LET t1 == ReplaceEscape(t, "n", <<"\n">>)
      t2 == ReplaceEscape(t1, "r", <<>>)
      t3 == ReplaceEscape(t2, "t", <<" ">>)
      t4 == ReplaceEscape(t3, Backslash, <<Backslash>>)
      t5 == ReplaceEscape(t4, "(", <<"(">>)
  IN  ReplaceEscape(t5, ")", <<")">>)

\* lines 315-327: the groups of the matches of /\(([^)]+)\)/g, unescaped, in order.
\* A match ends at a ")" and starts at the first "(" after the ")" before it, with
\* at least one character between the two.
LiteralParts(raw) ==
  LET closes == {q \in 1..Len(raw) : raw[q] = ")"}
      prev(q) == IF \E c \in closes : c < q
                   THEN CHOOSE c \in closes : c < q /\ \A d \in closes : d < q => d <= c
                   ELSE 0
      opens(q) == {o \in (prev(q) + 1)..(q - 2) : raw[o] = "("}
      ends == {q \in closes : opens(q) # {}}
      part(k) == LET q == Nth(ends, k) IN Unescape(SubSeq(raw, Least(opens(q)) + 1, q - 1))
  IN  [k \in 1..Cardinality(ends) |-> part(k)]

HexChars == Chars("0123456789ABCDEF")
HexSet == Range(HexChars) \cup {"a", "b", "c", "d", "e", "f"}
HexVal(c) == (CHOOSE k \in 1..16 : HexChars[k] = ToUpper(c)) - 1

\* the characters String.fromCharCode gives for the bytes 32..126; the grave accent
\* (byte 96) cannot be written in a string here and is the one-character string GRAVE
Printable ==
  Chars(" !\"#$%&'()*+,-./0123456789:;<=>?@ABCDEFGHIJKLMNOPQRSTUVWXYZ[\\]^_")
    \o <<"GRAVE">> \o Chars("abcdefghijklmnopqrstuvwxyz{|}~")

\* lines 341-351: the text of an even-length run of hexadecimal digits
HexDecode(hexStr) ==
  LET byte(k) == 16 * HexVal(hexStr[2 * k - 1]) + HexVal(hexStr[2 * k])
      piece(k) ==
        IF byte(k) >= 32 /\ byte(k) <= 126 THEN <<Printable[byte(k) - 31]>>
        ELSE IF byte(k) = 10 THEN <<"\n">>
        ELSE IF byte(k) = 32 THEN <<" ">>
        ELSE <<>>
  IN  JoinWith([k \in 1..(Len(hexStr) \div 2) |-> piece(k)], <<>>)

\* HexParts keeping the runs whose text is blank
HexPartsKeepBlank(raw) ==
  LET n(p) == RunLen(raw, p + 1, HexSet)
      starts == {p \in 1..Len(raw) :
                   /\ raw[p] = "<"
                   /\ n(p) >= 1
                   /\ n(p) % 2 = 0
                   /\ p + 1 + n(p) <= Len(raw)
                   /\ raw[p + 1 + n(p)] = ">"}
  IN  [k \in 1..Cardinality(starts) |->
         LET p == Nth(starts, k) IN HexDecode(SubSeq(raw, p + 1, p + n(p)))]

\* lines 335-357: the decoded matches of /<([0-9A-Fa-f]+)>/g that are kept, in order
HexParts(raw) ==
  LET n(p) == RunLen(raw, p + 1, HexSet)
      starts == {p \in 1..Len(raw) :
                   /\ raw[p] = "<"
                   /\ n(p) >= 1
                   /\ p + 1 + n(p) <= Len(raw)
                   /\ raw[p + 1 + n(p)] = ">"}
      hexStr(k) == LET p == Nth(starts, k) IN SubSeq(raw, p + 1, p + n(p))
      all == [k \in 1..Cardinality(starts) |->
                IF Len(hexStr(k)) % 2 = 0 THEN HexDecode(hexStr(k)) ELSE <<>>]
  IN  SelectSeq(all, LAMBDA decoded : Trim(decoded) # <<>>)

\* extractTextFromPDF trying the hex strings whatever the literal strings gave
extractTextBothStrategies(raw) == JoinWith(LiteralParts(raw) \o HexParts(raw), <<"\n">>)

\* lines 309-366
extractTextFromPDF(raw) ==
  LET parts == LiteralParts(raw)
  IN  JoinWith(IF Len(parts) = 0 THEN HexParts(raw) ELSE parts, <<"\n">>)

-----------------------------------------------------------------------------
(* State *)

VARIABLES
  pc,                \* the step the run is at
  str, amount,       \* parseAmount: its argument and its result
  text,              \* parseBCAStatement: its argument
  period, year, month, openingBalance, closingBalance, startDate, endDate,
  lines, i, day, mon, j, descriptionLines, transactions,
  parsed,            \* the value parseBCAStatement returns, Null before it returns
  req,               \* the request: file, useOCR, previewOnly
  response,          \* the response of the run, Null until it is sent
  ocrRequests,       \* requests sent to the recognition service in the run
  ocrReply,          \* the reply of the recognition service, Null before it arrives
  storage,           \* the files stored in the bank-statements bucket by the run
  uploads,           \* the rows inserted into bank_statement_uploads by the run
  statementLines,    \* the rows inserted into bank_statement_lines by the run
  next, insertedCount, duplicateCount,
  failedLines,       \* the rows whose insert failed otherwise and was logged (line 201)
  clock,             \* the year of the clock of the process: new Date().getFullYear()
  runs,              \* the calls of parseBCAStatement that have returned in the process
  pettyCash,         \* the rows of the table petty_cash_transactions
  lastId,            \* the number of rows the table was ever given
  screens,           \* PettyCashManager of each user: where handleSubmit is, cashBalance,
                     \* formData and the transaction number it was given
  formData,          \* FundTransferManager: the form
  modalOpen,         \* FundTransferManager: the modal is open
  fundTransfers,     \* the rows inserted into fund_transfers
  alerted            \* FundTransferManager: the text of the last alert, "" before any

amountVars == <<str, amount>>
headerVars == <<period, year, month, openingBalance, closingBalance, startDate, endDate>>
scanVars == <<lines, i, day, mon, j, descriptionLines, transactions>>
parseVars == <<text, headerVars, scanVars, parsed>>
storeVars == <<storage, uploads, statementLines>>
loopVars == <<next, insertedCount, duplicateCount, failedLines>>
ocrVars == <<ocrRequests, ocrReply>>
handlerVars == <<req, response, ocrVars, storeVars, loopVars>>
processVars == <<clock, runs>>
pettyVars == <<pettyCash, lastId, screens>>
transferVars == <<formData, modalOpen, fundTransfers, alerted>>
screenVars == <<pettyVars, transferVars>>
vars == <<pc, amountVars, parseVars, handlerVars, processVars, screenVars>>

-----------------------------------------------------------------------------
(* Inputs *)

MaxTokLen == 5
MaxLines == 3

\* line 449
MaxBlockLines == 50

SeqsUpTo(S, n) == UNION {[1..k -> S] : k \in 0..n}

TokenAlphabet == {"0", "7", ",", "."}

ExampleTokens ==
  {Chars("1.234.567,89"), Chars("1,234,567.89"), Chars("1.234,00"), Chars("50,5"),
   Chars("1.2.3,4,5"), Chars("10.000.000,00"), Chars("1,234.56"), Chars("Rp 1.234,00"),
   Chars("..."), Chars("0211"), Chars("12.345.678.901,5"), Chars("100.000.000.000")}

Tokens == SeqsUpTo(TokenAlphabet, MaxTokLen) \cup ExampleTokens

CurrentYears == {2026}

LineBreak == <<"\n">>

CoreLines ==
  {Chars("05/01"), Chars("06/01"), Chars("BIAYA ADMIN"), Chars("150.000,00 CR"),
   Chars("10.000,00"), Chars("Halaman 1")}

EnumTexts == {JoinWith(ls, LineBreak) : ls \in SeqsUpTo(CoreLines, MaxLines)}

ProbeDays == {0, 1, 2, 30, 31, 32, 99}
ProbeMonths == {0, 1, 2, 11, 12, 13, 99}

DateLikes ==
  {Pad2(d) \o <<"/">> \o Pad2(m) : d \in ProbeDays, m \in ProbeMonths}
    \cup {Chars("5/01"), Chars("05/1"), Chars("05/011"), Chars("05-01"), Chars("05/01x"),
          Chars("ab/cd"), Chars("005/01"), Chars("05/01/25")}

\* a date-like line where a block would start, and one where a block would end
ProbeTexts ==
  {JoinWith(<<dl, Chars("A 1,00")>>, LineBreak) : dl \in DateLikes}
    \cup {JoinWith(<<Chars("05/01"), Chars("A 1,00"), dl, Chars("B 2,00 CR")>>, LineBreak) :
            dl \in DateLikes}

InvoiceText ==
  Chars("02/11\n0211/FTSCY/WS95051\nPEMBAYARAN INVOICE\n500.000,00 DB\n10.000.000,00")

JanuaryText ==
  Chars("PERIODE: JANUARI 2025\nSALDO AWAL:1.000.000,00\n05/01\nTRANSFER MASUK\n500.000,00 CR\n06/01\nBIAYA ADMIN\n10.000,00 DB\n1.490.000,00")

HeaderOnlyText == Chars("TANGGAL KETERANGAN CABANG")

ShapeTexts ==
  {InvoiceText, JanuaryText, HeaderOnlyText, <<>>,
   Chars("  05/01 \r\n\n\t Transfer 5,00 cr  \n  \n07/01\n\n 8,50 \n"),
   Chars("05/01\nMICRO 20,00\n06/01\n20,00CR\n07/01\nBAYAR\n7,00\nCR"),
   Chars("05/01\nab\n06/01\n7\n07/01\n0,00 DB\n08/01\nsaldo 5,00\n09/01"),
   Chars("Periode : februari 2024\nSaldo Awal : 12,5\nSALDO AKHIR 1.000,00\n29/02\nTARIK TUNAI 250.000,00 DB 750.000,00 1.000,00"),
   Chars("05/01\nKARTU 100.000.000.000,00 99.999.999.999,99 CR 5"),
   Chars("05/01\nsaldo 5,00\n06/01\nBAYAR 7,00\n07/01\nx\n08/01\nTARIK 9,00 DB\n09/01\nTUNAI 0\n10/01")}

\* a block of 1 + n lines after its date line, followed by tail
LongText(n, tail) ==
  JoinWith(<<Chars("05/01"), Chars("7,00 DB")>> \o [k \in 1..n |-> Chars("LANJUT")] \o tail, LineBreak)

LongTexts ==
  {LongText(n, tail) : n \in (MaxBlockLines - 2)..(MaxBlockLines + 2),
                       tail \in {<<>>, <<Chars("06/01"), Chars("9,00 CR")>>}}

\* the years of the period marker: leap and common years, centuries, and years below 100
PeriodYears ==
  {Chars("0000"), Chars("0004"), Chars("1900"), Chars("2000"), Chars("2023"), Chars("2024")}

\* a statement of month k of year y with one transaction
PeriodText(k, y) ==
  Chars("PERIODE: ") \o MonthNames[k] \o <<" ">> \o y \o Chars("\n05/") \o Pad2(k) \o Chars("\nTARIK 1,00 DB")

PeriodTexts == {PeriodText(k, y) : k \in 1..12, y \in PeriodYears}

ParseTexts == EnumTexts \cup ProbeTexts \cup ShapeTexts \cup LongTexts \cup PeriodTexts

-----------------------------------------------------------------------------
(* parseAmount as a step *)

IdleHeader ==
  /\ period = <<>>
  /\ year = 0
  /\ month = 0
  /\ openingBalance = Zero
  /\ closingBalance = Zero
  /\ startDate = <<>>
  /\ endDate = <<>>

IdleScan ==
  /\ lines = <<>>
  /\ i = 0
  /\ day = 0
  /\ mon = 0
  /\ j = 0
  /\ descriptionLines = <<>>
  /\ transactions = <<>>

IdleParser ==
  /\ IdleHeader
  /\ IdleScan
  /\ parsed = Null

NoRequest == [file |-> Null, useOCR |-> FALSE, previewOnly |-> FALSE]

\* the users with PettyCashManager open
Users == {"u1", "u2"}

\* PettyCashManager.tsx lines 94-121: the component as it is mounted; submitted is the
\* formData a running handleSubmit was called with, Null when none is running
IdleScreen == [pc |-> "idle", cashBalance |-> 0, submitted |-> Null, transactionNumber |-> Null]

\* FundTransferManager.tsx lines 38-46, 156-166: the form as resetForm leaves it, less
\* transfer_date and description
EmptyForm ==
  [amount |-> 0,
   from_account_type |-> "bank",
   to_account_type |-> "petty_cash",
   from_bank_account_id |-> "",
   to_bank_account_id |-> ""]

IdleScreens ==
  /\ pettyCash = {}
  /\ lastId = 0
  /\ screens = [u \in Users |-> IdleScreen]
  /\ formData = EmptyForm
  /\ modalOpen = FALSE
  /\ fundTransfers = <<>>
  /\ alerted = ""

IdleProcess ==
  /\ clock \in CurrentYears
  /\ runs = <<>>

IdleHandler ==
  /\ response = Null
  /\ ocrRequests = 0
  /\ ocrReply = Null
  /\ storage = <<>>
  /\ uploads = <<>>
  /\ statementLines = <<>>
  /\ next = 0
  /\ insertedCount = 0
  /\ duplicateCount = 0
  /\ failedLines = 0

InitAmount ==
  /\ pc = "parseAmount"
  /\ str \in Tokens
  /\ amount = Zero
  /\ text = <<>>
  /\ IdleParser
  /\ req = NoRequest
  /\ IdleHandler
  /\ IdleProcess
  /\ IdleScreens

ParseAmountCall ==
  /\ pc = "parseAmount"
  /\ amount' = parseAmount(str)
  /\ pc' = "amountReturned"
  /\ UNCHANGED <<screenVars, processVars, str, parseVars, handlerVars>>

NextAmount == ParseAmountCall

SpecAmount == InitAmount /\ [][NextAmount]_vars

-----------------------------------------------------------------------------
(* parseBCAStatement as a state machine *)

\* the transaction list of the call before carried into this one
CarriedTransactions(before) == before

\* line 399: const transactions: ParsedTransaction[] = []
NewTransactions(before) == <<>>

\* lines 369-400: period, balances, statement dates, the line sequence
ParseStart ==
  /\ pc = "parse"
  /\ LET now == clock
         pm == PeriodMatch(text)
         y == IF pm.ok THEN parseInt(pm.digits) ELSE now
         m == IF pm.ok THEN MonthNumber(pm.name) ELSE 1
     IN    /\ period' = (IF pm.ok THEN pm.name \o <<" ">> \o pm.digits ELSE <<>>)
           /\ year' = y
           /\ month' = m
           /\ startDate' = DateString(y, m, 1)
           /\ endDate' = DateString(y, m, LastDay(y, m))
  /\ openingBalance' = SaldoBalance(text, Chars("AWAL"))
  /\ closingBalance' = SaldoBalance(text, Chars("AKHIR"))
  /\ lines' = SplitTrimmedLines(text)
  /\ transactions' = NewTransactions(transactions)
  /\ i' = 0
  /\ pc' = "seek"
  /\ UNCHANGED <<screenVars, processVars, amountVars, handlerVars, text, day, mon, j, descriptionLines, parsed>>

\* lines 408-429: one iteration of the main loop up to the start of a block
Seek ==
  /\ pc = "seek"
  /\ i < Len(lines)
  /\ LET line == lines[i + 1]
     IN  IF SeekDateLine(line)
           THEN /\ day' = parseInt(SubSeq(line, 1, 2))
                /\ mon' = parseInt(SubSeq(line, 4, 5))
                /\ descriptionLines' = <<>>
                /\ j' = i + 1
                /\ pc' = "collect"
                /\ UNCHANGED i
           ELSE /\ i' = i + 1
                /\ UNCHANGED <<pc, day, mon, j, descriptionLines>>
  /\ UNCHANGED <<screenVars, processVars, amountVars, handlerVars, text, headerVars, lines, transactions, parsed>>

\* descriptionLines.length > 50
CapReached(collected) == Len(collected) > MaxBlockLines

\* lines 431-450: one iteration of the collecting loop
Collect ==
  /\ pc = "collect"
  /\ IF j < Len(lines)
       THEN LET nextLine == lines[j + 1]
            IN  IF NextDateLine(nextLine)
                  THEN /\ pc' = "block"
                       /\ UNCHANGED <<j, descriptionLines>>
                  ELSE /\ descriptionLines' = Append(descriptionLines, nextLine)
                       /\ j' = j + 1
                       /\ pc' = (IF CapReached(descriptionLines') THEN "block" ELSE "collect")
       ELSE /\ pc' = "block"
            /\ UNCHANGED <<j, descriptionLines>>
  /\ UNCHANGED <<screenVars, processVars, amountVars, handlerVars, text, headerVars, lines, i, day, mon, transactions, parsed>>

\* Transaction with the description joined by spaces
TransactionFlat(y, m, d, collected) ==
  LET textForAmounts == JoinWith(collected, <<" ">>)
      amounts == Amounts(textForAmounts)
      isCredit == IsCredit(textForAmounts)
      amt == amounts[1]
  IN  [date |-> DateString(y, m, d),
       description |-> textForAmounts,
       reference |-> Reference(textForAmounts),
       branchCode |-> <<>>,
       debitAmount |-> (IF isCredit THEN Zero ELSE amt),
       creditAmount |-> (IF isCredit THEN amt ELSE Zero),
       balance |-> (IF Len(amounts) > 1 THEN amounts[Len(amounts)] ELSE Null)]

\* lines 483-508: the transaction of a block
Transaction(y, m, d, collected) ==
  LET textForAmounts == JoinWith(collected, <<" ">>)
      amounts == Amounts(textForAmounts)
      isCredit == IsCredit(textForAmounts)
      amt == amounts[1]
  IN  [date |-> DateString(y, m, d),
       description |-> JoinWith(collected, LineBreak),
       reference |-> Reference(textForAmounts),
       branchCode |-> <<>>,
       debitAmount |-> (IF isCredit THEN Zero ELSE amt),
       creditAmount |-> (IF isCredit THEN amt ELSE Zero),
       balance |-> (IF Len(amounts) > 1 THEN amounts[Len(amounts)] ELSE Null)]

\* lines 455-481: the block is skipped
Rejected(collected) ==
  LET fullDescription == JoinWith(collected, LineBreak)
  IN  \/ IsNoise(fullDescription)
      \/ Len(Trim(fullDescription)) < 3
      \/ Len(Amounts(JoinWith(collected, <<" ">>))) = 0

\* NextCursor one line short of where the collection stopped
NextCursorBeforeLine(stop) == stop - 1

\* NextCursor stepping over the line the collection stopped at
NextCursorPastLine(stop) == stop + 1

\* line 519: i = j
NextCursor(stop) == stop

\* lines 452-520: the rest of the iteration once the block is collected
Block ==
  /\ pc = "block"
  /\ transactions' =
       (IF Rejected(descriptionLines)
          THEN transactions
          ELSE Append(transactions, Transaction(year, mon, day, descriptionLines)))
  /\ i' = NextCursor(j)
  /\ day' = 0
  /\ mon' = 0
  /\ j' = 0
  /\ descriptionLines' = <<>>
  /\ pc' = "seek"
  /\ UNCHANGED <<screenVars, processVars, amountVars, handlerVars, text, headerVars, lines, parsed>>

\* transactions.reduce((s, t) => s + t.debitAmount, 0)
RECURSIVE SumDebits(_)
SumDebits(txns) ==
  IF txns = <<>> THEN Zero
  ELSE DecAdd(SumDebits(SubSeq(txns, 1, Len(txns) - 1)), txns[Len(txns)].debitAmount)

\* transactions.reduce((s, t) => s + t.creditAmount, 0)
RECURSIVE SumCredits(_)
SumCredits(txns) ==
  IF txns = <<>> THEN Zero
  ELSE DecAdd(SumCredits(SubSeq(txns, 1, Len(txns) - 1)), txns[Len(txns)].creditAmount)

\* Statement with the credits counted from the opening balance
StatementOpeningInTotals(txns) ==
  [period |-> period,
   startDate |-> startDate,
   endDate |-> endDate,
   openingBalance |-> openingBalance,
   closingBalance |-> closingBalance,
   totalDebits |-> SumDebits(txns),
   totalCredits |-> DecAdd(openingBalance, SumCredits(txns)),
   transactions |-> txns]

\* lines 522-537: the statement handed back
Statement(txns) ==
  [period |-> period,
   startDate |-> startDate,
   endDate |-> endDate,
   openingBalance |-> openingBalance,
   closingBalance |-> closingBalance,
   totalDebits |-> SumDebits(txns),
   totalCredits |-> SumCredits(txns),
   transactions |-> txns]

\* lines 408, 522-537: the loop ends and the statement is returned
Finish ==
  /\ pc = "seek"
  /\ ~(i < Len(lines))
  /\ parsed' = Statement(transactions)
  /\ pc' = "parsed"
  /\ UNCHANGED <<screenVars, processVars, amountVars, handlerVars, text, headerVars, scanVars>>

InitParse ==
  /\ pc = "parse"
  /\ text \in ParseTexts
  /\ str = <<>>
  /\ amount = Zero
  /\ IdleParser
  /\ req = NoRequest
  /\ IdleHandler
  /\ IdleProcess
  /\ IdleScreens

NextParse == ParseStart \/ Seek \/ Collect \/ Block \/ Finish

SpecParse == InitParse /\ [][NextParse]_vars

\* parseBCAStatement runs on one thread with no await: a step that can be taken is
\* taken. This is WF_vars(NextParse) written out, ENABLED <<NextParse>>_vars being
\* pc # "parsed": one of the five steps can be taken at every other position.
ParseFairness == []<>(pc = "parsed") \/ []<><<NextParse>>_vars

SpecParseFair == SpecParse /\ ParseFairness

-----------------------------------------------------------------------------
(* extractTextFromPDF as a step *)

MaxObjects == 3

\* objects of a document: literal strings, hex strings of even and of odd length and of
\* bytes that are dropped, and operators; block is the text of the object, if it has one
Objects ==
  {[src |-> Chars("(05/01)"), kind |-> "literal", block |-> Chars("05/01")],
   [src |-> Chars("(SETORAN 7,00 CR)"), kind |-> "literal", block |-> Chars("SETORAN 7,00 CR")],
   [src |-> Chars("<30362F3031>"), kind |-> "hex", block |-> Chars("06/01")],
   [src |-> Chars("<392c3030204442>"), kind |-> "hex", block |-> Chars("9,00 DB")],
   [src |-> Chars("<303>"), kind |-> "none", block |-> <<>>],
   [src |-> Chars("<0007>"), kind |-> "none", block |-> <<>>],
   [src |-> Chars("<200A>"), kind |-> "none", block |-> <<>>],
   [src |-> Chars("BT /F1 12 Tf ET"), kind |-> "none", block |-> <<>>]}

\* the documents of up to MaxObjects objects, one to a line
Documents ==
  {JoinWith([k \in 1..Len(objs) |-> objs[k].src], LineBreak) : objs \in SeqsUpTo(Objects, MaxObjects)}

ExtractRequests ==
  {[file |-> [type |-> Chars("application/pdf"), name |-> Chars("mutasi.pdf"), data |-> d],
    useOCR |-> FALSE, previewOnly |-> FALSE] : d \in Documents}

\* line 88: text = extractTextFromPDF(uint8Array)
Extract ==
  /\ pc = "extract"
  /\ text' = extractTextFromPDF(req.file.data)
  /\ pc' = "extracted"
  /\ UNCHANGED <<screenVars, processVars, amountVars, headerVars, scanVars, parsed, req, response, ocrVars, storeVars, loopVars>>

InitExtract ==
  /\ pc = "extract"
  /\ req \in ExtractRequests
  /\ str = <<>>
  /\ amount = Zero
  /\ text = <<>>
  /\ IdleParser
  /\ IdleHandler
  /\ IdleProcess
  /\ IdleScreens

NextExtract == Extract

SpecExtract == InitExtract /\ [][NextExtract]_vars

MaxLiteralLen == 3

\* the characters a literal string is made of here: a letter, the letter of the
\* newline escape, the backslash and the two parentheses
LiteralAlphabet == {"a", "n", Backslash, "(", ")"}

\* documents of one literal string object: its content between two parentheses
LiteralDocuments ==
  {<<"(">> \o body \o <<")">> : body \in SeqsUpTo(LiteralAlphabet, MaxLiteralLen) \ {<<>>}}

LiteralRequests ==
  {[file |-> [type |-> Chars("application/pdf"), name |-> Chars("mutasi.pdf"), data |-> d],
    useOCR |-> FALSE, previewOnly |-> FALSE] : d \in LiteralDocuments}

InitLiteral ==
  /\ pc = "extract"
  /\ req \in LiteralRequests
  /\ str = <<>>
  /\ amount = Zero
  /\ text = <<>>
  /\ IdleParser
  /\ IdleHandler
  /\ IdleProcess
  /\ IdleScreens

SpecLiteral == InitLiteral /\ [][NextExtract]_vars

-----------------------------------------------------------------------------
(* parseBCAStatement called again and again in one process *)

MaxRuns == 3

RerunTexts ==
  {JanuaryText, HeaderOnlyText,
   Chars("05/01\nMICRO 20,00\n06/01\n20,00CR\n07/01\nBAYAR\n7,00\nCR")}

RerunYears == {2026, 2027}

\* the call has returned and parseBCAStatement is called once more, at a later time and
\* on any text; its locals hold whatever the call before left until lines 369-400 set them
CallAgain ==
  /\ pc = "parsed"
  /\ Len(runs) + 1 < MaxRuns
  /\ runs' = Append(runs, [text |-> text, now |-> clock, result |-> parsed])
  /\ text' \in RerunTexts
  /\ clock' \in RerunYears
  /\ parsed' = Null
  /\ pc' = "parse"
  /\ UNCHANGED <<screenVars, amountVars, handlerVars, headerVars, scanVars>>

InitRerun ==
  /\ pc = "parse"
  /\ text \in RerunTexts
  /\ str = <<>>
  /\ amount = Zero
  /\ IdleParser
  /\ req = NoRequest
  /\ IdleHandler
  /\ clock \in RerunYears
  /\ runs = <<>>
  /\ IdleScreens

NextRerun == ParseStart \/ Seek \/ Collect \/ Block \/ Finish \/ CallAgain

SpecRerun == InitRerun /\ [][NextRerun]_vars

-----------------------------------------------------------------------------
(* The request handler *)

\* s ends with w, letters compared without case
EndsWithNoCase(s, w) ==
  Len(s) >= Len(w) /\ MatchAt(UpperStr(s), Len(s) - Len(w) + 1, UpperStr(w))

\* s.includes(w)
Includes(s, w) == \E p \in 1..(Len(s) - Len(w) + 1) : MatchAt(s, p, w)

\* IsImageFile by the media type alone
IsImageFileByType(file) == Includes(file.type, Chars("image/"))

\* line 69: fileType.includes('image/') || file.name.match(/\.(png|jpg|jpeg)$/i)
IsImageFile(file) ==
  \/ Includes(file.type, Chars("image/"))
  \/ \E ext \in {Chars(".png"), Chars(".jpg"), Chars(".jpeg")} : EndsWithNoCase(file.name, ext)

\* ErrorResponse with the stack of the error in the body
ErrorResponseWithStack(message) ==
  [status |-> 400, body |-> [error |-> message, stack |-> "Error: " \o message \o "\n    at Deno.serve"]]

\* lines 224-229: the response of the catch block
ErrorResponse(message) ==
  [status |-> 400, body |-> [error |-> IF message = "" THEN "Failed to parse PDF" ELSE message]]

\* NoTransactionsResponse as a bare error
BareNoTransactionsResponse ==
  [status |-> 400,
   body |-> [error |-> "No valid transactions found in PDF. The document may be encrypted or image-based."]]

\* lines 106-118
NoTransactionsResponse ==
  [status |-> 400,
   body |-> [error |-> "No valid transactions found in PDF. The document may be encrypted or image-based.",
             canUseOCR |-> TRUE,
             suggestions |->
               <<"Use \"Download as Excel\" from BCA e-Banking (recommended)",
                 "Click \"Run OCR Anyway\" to process with optical character recognition",
                 "Upload as PNG/JPG image instead of PDF",
                 "Manually enter transactions using the Excel template">>]]

Min(a, b) == IF a <= b THEN a ELSE b

PreviewCount == 10
PreviewTextLength == 2000

\* PreviewResponse with every transaction of the statement
PreviewResponseWhole(p, t) ==
  [status |-> 200,
   body |-> [preview |-> TRUE,
             period |-> p.period,
             openingBalance |-> p.openingBalance,
             closingBalance |-> p.closingBalance,
             transactionCount |-> Len(p.transactions),
             transactions |-> p.transactions,
             extractedText |-> SubSeq(t, 1, Min(PreviewTextLength, Len(t)))]]

\* lines 122-133
PreviewResponse(p, t) ==
  [status |-> 200,
   body |-> [preview |-> TRUE,
             period |-> p.period,
             openingBalance |-> p.openingBalance,
             closingBalance |-> p.closingBalance,
             transactionCount |-> Len(p.transactions),
             transactions |-> SubSeq(p.transactions, 1, Min(PreviewCount, Len(p.transactions))),
             extractedText |-> SubSeq(t, 1, Min(PreviewTextLength, Len(t)))]]

\* lines 210-223
SuccessResponse(p, upload, inserted, duplicates, useOCR) ==
  [status |-> 200,
   body |-> [success |-> TRUE,
             uploadId |-> upload.id,
             transactionCount |-> Len(p.transactions),
             insertedCount |-> inserted,
             duplicateCount |-> duplicates,
             period |-> p.period,
             openingBalance |-> p.openingBalance,
             closingBalance |-> p.closingBalance,
             usedOCR |-> useOCR]]

Respond(r) ==
  /\ response' = r
  /\ pc' = "responded"

\* lines 20-64: what the request is refused with before the file is read, "" if nothing
Refusal(method, authHeader, userOk, hasFile, hasAccountId, accountFound) ==
  IF method = "OPTIONS" THEN "ok"
  ELSE IF ~authHeader THEN "No authorization header"
  ELSE IF ~userOk THEN "Unauthorized"
  ELSE IF ~hasFile \/ ~hasAccountId THEN "Missing file or bankAccountId"
  ELSE IF ~accountFound THEN "Bank account not found"
  ELSE ""

\* lines 19-64
Accept ==
  /\ pc = "request"
  /\ \E method \in {"OPTIONS", "POST"}, authHeader \in BOOLEAN, userOk \in BOOLEAN,
        hasFile \in BOOLEAN, hasAccountId \in BOOLEAN, accountFound \in BOOLEAN :
       LET refusal == Refusal(method, authHeader, userOk, hasFile, hasAccountId, accountFound)
       IN  IF refusal = "ok"
             THEN Respond([status |-> 200, body |-> [text |-> "ok"]])
             ELSE IF refusal # ""
               THEN Respond(ErrorResponse(refusal))
               ELSE pc' = "acquire" /\ UNCHANGED response
  /\ UNCHANGED <<screenVars, processVars, amountVars, parseVars, req, ocrVars, storeVars, loopVars>>

MinTranscriptionLength == 50
MinOcrTextLength == 100
ErrorTextLength == 200

\* lines 282-306: what extractTextWithOpenAI makes of the reply of the service:
\* [error, text], error being "" when the text is returned
OpenAIResult(reply) ==
  IF ~reply.ok
    THEN IF Includes(Chars(reply.errorText), Chars("pdf")) \/ Includes(Chars(reply.errorText), Chars("format"))
           THEN [error |-> "OpenAI cannot process PDFs directly. Please upload as PNG/JPG image instead, or use Excel export.",
                 text |-> <<>>]
           ELSE [error |-> "OpenAI OCR service failed: "
                             \o SubSeq(reply.errorText, 1, Min(ErrorTextLength, Len(reply.errorText))),
                 text |-> <<>>]
  ELSE IF ~reply.hasMessage
    THEN [error |-> "OpenAI returned no results", text |-> <<>>]
  ELSE IF reply.content = Null \/ Len(reply.content) = 0 \/ Len(reply.content) < MinTranscriptionLength
    THEN [error |-> "OpenAI could not extract sufficient text from this file", text |-> <<>>]
  ELSE [error |-> "", text |-> reply.content]


\* the two hexadecimal digits of a printable character or a line break
HexOf(c) ==
  LET b == IF c = "\n" THEN 10 ELSE 31 + CHOOSE k \in 1..Len(Printable) : Printable[k] = c
  IN  <<HexChars[(b \div 16) + 1], HexChars[(b % 16) + 1]>>

\* a document holding each line of t as a literal string object
LiteralDocument(t) ==
  LET ls == SplitLines(t)
  IN  JoinWith([k \in 1..Len(ls) |-> Chars("BT (") \o ls[k] \o Chars(") Tj ET")], LineBreak)

\* a document holding t as one hex string object
HexDocument(t) ==
  Chars("BT <") \o JoinWith([k \in 1..Len(t) |-> HexOf(t[k])], <<>>) \o Chars("> Tj ET")

ShortStatement == Chars("05/01\nSETORAN 7,00 CR\n06/01\nTARIK 7,00 DB 7,00\n07/01\nBUNGA 0,50 CR")

Files ==
  {[type |-> Chars("application/pdf"), name |-> Chars("januari.pdf"), data |-> LiteralDocument(JanuaryText)],
   [type |-> Chars("application/pdf"), name |-> Chars("hex.pdf"), data |-> HexDocument(ShortStatement)],
   [type |-> Chars("application/pdf"), name |-> Chars("header.pdf"), data |-> LiteralDocument(HeaderOnlyText)],
   [type |-> Chars("application/pdf"), name |-> Chars("scan.pdf"), data |-> Chars("%PDF-1.4 stream endstream")],
   [type |-> Chars("application/pdf"), name |-> Chars("empty.pdf"), data |-> <<>>],
   [type |-> Chars("image/png"), name |-> Chars("scan.png"), data |-> Chars("PNG")],
   [type |-> <<>>, name |-> Chars("SCAN.JPG"), data |-> Chars("JFIF")]}

\* a statement of one transaction more than a preview shows
LongStatement ==
  JoinWith([k \in 1..(PreviewCount + 1) |->
              Pad2(k) \o Chars("/01\nBAYAR ") \o NatChars(k) \o Chars(",00")], LineBreak)

LongFile ==
  [type |-> Chars("application/pdf"), name |-> Chars("long.pdf"), data |-> LiteralDocument(LongStatement)]

\* every file with and without recognition and preview, and the preview of the long file
Requests ==
  [file : Files, useOCR : BOOLEAN, previewOnly : BOOLEAN]
    \cup {[file |-> LongFile, useOCR |-> FALSE, previewOnly |-> TRUE]}

\* the lengths around the two lengths the code asks of a transcription
TranscriptionLengths ==
  {MinTranscriptionLength - 1, MinTranscriptionLength, MinOcrTextLength - 1, MinOcrTextLength}

\* transcriptions of 0, 31, 64, 25 and 125 characters, and of the lengths above
Transcriptions ==
  {<<>>, Chars("05/01\nSETORAN TUNAI 25.000,00 CR"), ShortStatement, HeaderOnlyText, JanuaryText}
    \cup {SubSeq(JanuaryText, 1, n) : n \in TranscriptionLengths}

ServiceReplies ==
  {[ok |-> FALSE, errorText |-> "invalid image format", hasMessage |-> FALSE, content |-> <<>>],
   [ok |-> FALSE, errorText |-> "rate limit exceeded", hasMessage |-> FALSE, content |-> <<>>],
   [ok |-> TRUE, errorText |-> "", hasMessage |-> FALSE, content |-> <<>>]}
    \cup {[ok |-> TRUE, errorText |-> "", hasMessage |-> TRUE, content |-> c] : c \in Transcriptions}

\* TooShort with the length the adapter asks for
TooShortForAdapter(t) == Len(t) < MinTranscriptionLength

\* line 84: text.length < 100
TooShort(t) == Len(t) < MinOcrTextLength

\* lines 66-98: the text comes from the recognition service or from the document
AcquireText ==
  /\ pc = "acquire"
  /\ IF IsImageFile(req.file) \/ req.useOCR
       THEN \E openaiKey \in BOOLEAN :
              IF ~openaiKey
                THEN /\ Respond(ErrorResponse("OCR is not configured. Please use Excel export instead."))
                     /\ UNCHANGED <<text, ocrVars>>
                ELSE \E reply \in ServiceReplies :
                       LET result == OpenAIResult(reply)
                       IN  /\ ocrRequests' = ocrRequests + 1
                           /\ ocrReply' = reply
                           /\ IF result.error # ""
                                THEN Respond(ErrorResponse(result.error)) /\ UNCHANGED text
                                ELSE IF TooShort(result.text)
                                  THEN /\ Respond(ErrorResponse("OCR failed to extract sufficient text. File may be corrupt or empty."))
                                       /\ UNCHANGED text
                                  ELSE /\ text' = result.text
                                       /\ pc' = "parse"
                                       /\ UNCHANGED response
       ELSE /\ text' = extractTextFromPDF(req.file.data)
            /\ pc' = "parse"
            /\ UNCHANGED <<response, ocrVars>>
  /\ UNCHANGED <<screenVars, processVars, amountVars, headerVars, scanVars, parsed, req, storeVars, loopVars>>

\* line 102: !parsed.transactions || parsed.transactions.length === 0
NoTransactions(p) == Len(p.transactions) = 0

\* lines 100-134: the parse result is looked at
AfterParse ==
  /\ pc = "parsed"
  /\ IF NoTransactions(parsed) THEN Respond(NoTransactionsResponse)
     ELSE IF req.previewOnly THEN Respond(PreviewResponse(parsed, text))
     ELSE pc' = "store" /\ UNCHANGED response
  /\ UNCHANGED <<screenVars, processVars, amountVars, parseVars, req, ocrVars, storeVars, loopVars>>

StorageErrors == {"", "Bucket not found"}
InsertErrors == {"", "permission denied"}

\* UploadFailed that lets every storage error pass
UploadFailedIgnored(uploadError) == FALSE

\* line 141: if (uploadError)
UploadFailed(uploadError) == uploadError # ""

\* lines 136-147: the file is stored
StoreFile ==
  /\ pc = "store"
  /\ \E uploadError \in StorageErrors :
       IF UploadFailed(uploadError)
         THEN Respond(ErrorResponse("Failed to upload PDF: " \o uploadError)) /\ UNCHANGED storage
         ELSE /\ storage' = (IF uploadError = "" THEN Append(storage, req.file.name) ELSE storage)
              /\ pc' = "record"
              /\ UNCHANGED response
  /\ UNCHANGED <<screenVars, processVars, amountVars, parseVars, req, ocrVars, uploads, statementLines, loopVars>>

\* lines 149-171, 189-190: the upload record is created
CreateUpload ==
  /\ pc = "record"
  /\ \E uploadInsertError \in InsertErrors :
       IF uploadInsertError # ""
         THEN /\ Respond(ErrorResponse("Failed to create upload record: " \o uploadInsertError))
              /\ UNCHANGED <<uploads, loopVars>>
         ELSE /\ uploads' = Append(uploads,
                   [id |-> Len(uploads) + 1,
                    statement_period |-> parsed.period,
                    statement_start_date |-> parsed.startDate,
                    statement_end_date |-> parsed.endDate,
                    opening_balance |-> parsed.openingBalance,
                    closing_balance |-> parsed.closingBalance,
                    total_credits |-> parsed.totalCredits,
                    total_debits |-> parsed.totalDebits,
                    transaction_count |-> Len(parsed.transactions),
                    file_url |-> req.file.name,
                    status |-> "completed"])
              /\ next' = 0
              /\ insertedCount' = 0
              /\ duplicateCount' = 0
              /\ UNCHANGED failedLines
              /\ pc' = "lines"
              /\ UNCHANGED response
  /\ UNCHANGED <<screenVars, processVars, amountVars, parseVars, req, ocrVars, storage, statementLines>>

\* lines 173-187: the row of a transaction
StatementLine(txn, upload) ==
  [upload_id |-> upload.id,
   transaction_date |-> txn.date,
   description |-> txn.description,
   reference |-> txn.reference,
   branch_code |-> txn.branchCode,
   debit_amount |-> txn.debitAmount,
   credit_amount |-> txn.creditAmount,
   running_balance |-> txn.balance,
   statement_balance |-> txn.balance,
   reconciliation_status |-> "unmatched"]

LineErrors == {"", "23505", "23503"}

\* DuplicateCountAfter counting every error as a duplicate
DuplicateCountAnyError(lineError, count) == count + 1

\* lines 197-202: duplicateCount after an insert that failed with lineError
DuplicateCountAfter(lineError, count) == IF lineError = "23505" THEN count + 1 ELSE count

\* lines 192-206: one iteration of the insert loop
InsertLine ==
  /\ pc = "lines"
  /\ next < Len(parsed.transactions)
  /\ \E lineError \in LineErrors :
       IF lineError # ""
         THEN /\ duplicateCount' = DuplicateCountAfter(lineError, duplicateCount)
              /\ failedLines' = (IF lineError = "23505" THEN failedLines ELSE failedLines + 1)
              /\ UNCHANGED <<statementLines, insertedCount>>
         ELSE /\ statementLines' =
                   Append(statementLines, StatementLine(parsed.transactions[next + 1], uploads[Len(uploads)]))
              /\ insertedCount' = insertedCount + 1
              /\ UNCHANGED <<duplicateCount, failedLines>>
  /\ next' = next + 1
  /\ UNCHANGED <<screenVars, processVars, pc, amountVars, parseVars, req, response, ocrVars, storage, uploads>>

\* lines 208-223: the loop is over
Succeed ==
  /\ pc = "lines"
  /\ ~(next < Len(parsed.transactions))
  /\ Respond(SuccessResponse(parsed, uploads[Len(uploads)], insertedCount, duplicateCount, req.useOCR))
  /\ UNCHANGED <<screenVars, processVars, amountVars, parseVars, req, ocrVars, storeVars, loopVars>>

Init ==
  /\ pc = "request"
  /\ req \in Requests
  /\ str = <<>>
  /\ amount = Zero
  /\ text = <<>>
  /\ IdleParser
  /\ IdleHandler
  /\ IdleProcess
  /\ IdleScreens

Next ==
  \/ Accept
  \/ AcquireText
  \/ ParseStart
  \/ Seek
  \/ Collect
  \/ Block
  \/ Finish
  \/ AfterParse
  \/ StoreFile
  \/ CreateUpload
  \/ InsertLine
  \/ Succeed

Spec == Init /\ [][Next]_vars

-----------------------------------------------------------------------------
(* PettyCashManager: the petty cash screen of each user over one table *)

MaxRows == 3
MaxAmount == 2

\* the amounts typed into the form
FormAmounts == 0..MaxAmount

TransactionTypes == {"withdraw", "expense"}

\* lines 152-158 and 409-411: the sum of the withdrawals less the sum of the expenses
RECURSIVE Balance(_)
Balance(rows) ==
  IF rows = {} THEN 0
  ELSE LET tx == CHOOSE r \in rows : TRUE
       IN  (IF tx.transaction_type = "withdraw" THEN tx.amount ELSE 0 - tx.amount)
             + Balance(rows \ {tx})

\* line 210: the prefix of the numbers of a type; the year and the month that follow
\* it are those of the clock, the same for every step here
Prefix(type) == IF type = "withdraw" THEN "PCW" ELSE "PCE"

\* lines 209-219: the prefix and one more than the count of the rows that carry it
generateTransactionNumber(rows, type) ==
  [prefix |-> Prefix(type),
   seq |-> Cardinality({r \in rows : r.transaction_number.prefix = Prefix(type)}) + 1]

\* lines 232-243: the alert handleSubmit returns with before it saves anything, "" if none
SubmitAlert(form, cashBalance) ==
  IF form.amount <= 0 THEN "Amount must be greater than 0"
  ELSE IF form.transaction_type = "expense" /\ form.paid_by = "cash" /\ form.amount > cashBalance
    THEN "Insufficient cash balance. Please add funds first."
  ELSE ""

\* lines 122-166: loadData, at mount, every 30 seconds and on refresh
LoadData(u) ==
  /\ pc = "screens"
  /\ screens' = [screens EXCEPT ![u].cashBalance = Balance(pettyCash)]
  /\ UNCHANGED <<pc, amountVars, parseVars, handlerVars, processVars, transferVars, pettyCash, lastId>>

\* lines 229-311: handleSubmit of a new cash transaction up to the number it is given
SubmitNew(u) ==
  /\ pc = "screens"
  /\ screens[u].pc = "idle"
  /\ lastId + Cardinality({v \in Users : screens[v].pc = "numbered"}) < MaxRows
  /\ \E type \in TransactionTypes, amt \in FormAmounts :
       LET form == [transaction_type |-> type, amount |-> amt, paid_by |-> "cash"]
       IN  IF SubmitAlert(form, screens[u].cashBalance) # ""
             THEN UNCHANGED screens
             ELSE screens' = [screens EXCEPT
                    ![u].pc = "numbered",
                    ![u].submitted = form,
                    ![u].transactionNumber = generateTransactionNumber(pettyCash, type)]
  /\ UNCHANGED <<pc, amountVars, parseVars, handlerVars, processVars, transferVars, pettyCash, lastId>>

\* lines 313-339, 421-434: the row is inserted and the screen brought up to date, or
\* the insert fails and the error is alerted
InsertNew(u) ==
  /\ pc = "screens"
  /\ screens[u].pc = "numbered"
  /\ \E error \in BOOLEAN :
       LET form == screens[u].submitted
           row == [id |-> lastId + 1,
                   transaction_number |-> screens[u].transactionNumber,
                   transaction_type |-> form.transaction_type,
                   amount |-> form.amount]
       IN  IF error
             THEN /\ screens' = [screens EXCEPT ![u].pc = "idle", ![u].submitted = Null,
                                                ![u].transactionNumber = Null]
                  /\ UNCHANGED <<pettyCash, lastId>>
             ELSE /\ pettyCash' = pettyCash \cup {row}
                  /\ lastId' = lastId + 1
                  /\ screens' = [screens EXCEPT
                       ![u].pc = "idle",
                       ![u].submitted = Null,
                       ![u].transactionNumber = Null,
                       ![u].cashBalance = IF form.transaction_type = "withdraw"
                                            THEN @ + form.amount ELSE @ - form.amount]
  /\ UNCHANGED <<pc, amountVars, parseVars, handlerVars, processVars, transferVars>>

\* lines 503-520, 229-243, 279-309, 403-420: handleEdit of a listed row and handleSubmit
\* of its form with another amount; the balance is read again from the table
SubmitEdit(u) ==
  /\ pc = "screens"
  /\ screens[u].pc = "idle"
  /\ \E tx \in pettyCash, amt \in FormAmounts :
       LET form == [transaction_type |-> tx.transaction_type, amount |-> amt, paid_by |-> "cash"]
       IN  IF SubmitAlert(form, screens[u].cashBalance) # ""
             THEN UNCHANGED <<pettyCash, screens>>
             ELSE /\ pettyCash' = (pettyCash \ {tx}) \cup {[tx EXCEPT !.amount = amt]}
                  /\ screens' = [screens EXCEPT ![u].cashBalance = Balance(pettyCash')]
  /\ UNCHANGED <<pc, amountVars, parseVars, handlerVars, processVars, transferVars, lastId>>

\* lines 522-553: handleDelete of a listed row, confirmed
Delete(u) ==
  /\ pc = "screens"
  /\ \E tx \in pettyCash :
       /\ pettyCash' = pettyCash \ {tx}
       /\ screens' = [screens EXCEPT
            ![u].cashBalance = IF tx.transaction_type = "withdraw" THEN @ - tx.amount ELSE @ + tx.amount]
  /\ UNCHANGED <<pc, amountVars, parseVars, handlerVars, processVars, transferVars, lastId>>

\* the screens are mounted over an empty table; the list of each screen shows the
\* rows of the table
InitPetty ==
  /\ pc = "screens"
  /\ text = <<>>
  /\ str = <<>>
  /\ amount = Zero
  /\ req = NoRequest
  /\ IdleParser
  /\ IdleHandler
  /\ IdleProcess
  /\ IdleScreens

NextPetty ==
  \E u \in Users : LoadData(u) \/ SubmitNew(u) \/ InsertNew(u) \/ SubmitEdit(u) \/ Delete(u)

SpecPetty == InitPetty /\ [][NextPetty]_vars

-----------------------------------------------------------------------------
(* FundTransferManager: the form of a new fund transfer *)

MaxTransfers == 1

AccountTypes == {"petty_cash", "cash_on_hand", "bank"}

\* the options of a bank account select: none chosen, or an active bank account
BankAccountIds == {"", "b1", "b2"}

\* values of the amount field: parseFloat(e.target.value) || 0
TransferAmounts == {0 - 1, 0, 1}

\* ValidationAlert without the comparison of the two bank accounts
ValidationAlertTypesOnly(form) ==
  IF form.amount <= 0 THEN "Amount must be greater than 0"
  ELSE IF form.from_account_type = form.to_account_type /\ form.from_account_type # "bank"
    THEN "Cannot transfer to the same account type"
  ELSE IF form.from_account_type = "bank" /\ form.from_bank_account_id = ""
    THEN "Please select source bank account"
  ELSE IF form.to_account_type = "bank" /\ form.to_bank_account_id = ""
    THEN "Please select destination bank account"
  ELSE ""

\* lines 85-110: the alert handleSubmit returns with before it saves anything, "" if none
ValidationAlert(form) ==
  IF form.amount <= 0 THEN "Amount must be greater than 0"
  ELSE IF /\ form.from_account_type = form.to_account_type
          /\ form.from_account_type = "bank"
          /\ form.from_bank_account_id = form.to_bank_account_id
    THEN "Cannot transfer to the same bank account"
  ELSE IF form.from_account_type = form.to_account_type /\ form.from_account_type # "bank"
    THEN "Cannot transfer to the same account type"
  ELSE IF form.from_account_type = "bank" /\ form.from_bank_account_id = ""
    THEN "Please select source bank account"
  ELSE IF form.to_account_type = "bank" /\ form.to_bank_account_id = ""
    THEN "Please select destination bank account"
  ELSE ""

\* lines 122-138: the row that is inserted, less the number, the date and the description
TransferData(form) ==
  [amount |-> form.amount,
   from_account_type |-> form.from_account_type,
   to_account_type |-> form.to_account_type,
   from_bank_account_id |-> (IF form.from_account_type = "bank" THEN form.from_bank_account_id ELSE Null),
   to_bank_account_id |-> (IF form.to_account_type = "bank" THEN form.to_bank_account_id ELSE Null)]

\* what the try block can fail with: no user, the number, the insert
SaveFailures == {"", "Not authenticated", "function generate_fund_transfer_number failed", "insert failed"}

TransferCreated == "Fund transfer created and posted successfully!"

transferFrame == <<pc, amountVars, parseVars, handlerVars, processVars, pettyVars>>

\* lines 206-210: New Transfer
OpenModal ==
  /\ pc = "transfers"
  /\ formData' = EmptyForm
  /\ modalOpen' = TRUE
  /\ UNCHANGED <<transferFrame, fundTransfers, alerted>>

\* lines 284-288 and 436-440: the modal is closed or cancelled
CloseModal ==
  /\ pc = "transfers"
  /\ modalOpen
  /\ modalOpen' = FALSE
  /\ formData' = EmptyForm
  /\ UNCHANGED <<transferFrame, fundTransfers, alerted>>

\* line 314
SetAmount ==
  /\ pc = "transfers"
  /\ modalOpen
  /\ \E a \in TransferAmounts : formData' = [formData EXCEPT !.amount = a]
  /\ UNCHANGED <<transferFrame, modalOpen, fundTransfers, alerted>>

\* lines 331-335 and 380-384: an account type is chosen; the bank account of the side
\* is kept only if the type is bank
SetAccountType ==
  /\ pc = "transfers"
  /\ modalOpen
  /\ \E t \in AccountTypes :
       \/ formData' = [formData EXCEPT !.from_account_type = t,
                                       !.from_bank_account_id = IF t = "bank" THEN @ ELSE ""]
       \/ formData' = [formData EXCEPT !.to_account_type = t,
                                       !.to_bank_account_id = IF t = "bank" THEN @ ELSE ""]
  /\ UNCHANGED <<transferFrame, modalOpen, fundTransfers, alerted>>

\* lines 345-351 and 394-400: a bank account is chosen on a side whose type is bank
SetBankAccount ==
  /\ pc = "transfers"
  /\ modalOpen
  /\ \E id \in BankAccountIds :
       \/ /\ formData.from_account_type = "bank"
          /\ formData' = [formData EXCEPT !.from_bank_account_id = id]
       \/ /\ formData.to_account_type = "bank"
          /\ formData' = [formData EXCEPT !.to_bank_account_id = id]
  /\ UNCHANGED <<transferFrame, modalOpen, fundTransfers, alerted>>

\* lines 82-154: handleSubmit
SubmitTransfer ==
  /\ pc = "transfers"
  /\ modalOpen
  /\ Len(fundTransfers) < MaxTransfers \/ ValidationAlert(formData) # ""
  /\ IF ValidationAlert(formData) # ""
       THEN /\ alerted' = ValidationAlert(formData)
            /\ UNCHANGED <<formData, modalOpen, fundTransfers>>
       ELSE \E failure \in SaveFailures :
              IF failure # ""
                THEN /\ alerted' = "Failed to create fund transfer: " \o failure
                     /\ UNCHANGED <<formData, modalOpen, fundTransfers>>
                ELSE /\ fundTransfers' = Append(fundTransfers, TransferData(formData))
                     /\ alerted' = TransferCreated
                     /\ modalOpen' = FALSE
                     /\ formData' = EmptyForm
  /\ UNCHANGED transferFrame

InitTransfer ==
  /\ pc = "transfers"
  /\ text = <<>>
  /\ str = <<>>
  /\ amount = Zero
  /\ req = NoRequest
  /\ IdleParser
  /\ IdleHandler
  /\ IdleProcess
  /\ IdleScreens

NextTransfer ==
  OpenModal \/ CloseModal \/ SetAmount \/ SetAccountType \/ SetBankAccount \/ SubmitTransfer

SpecTransfer == InitTransfer /\ [][NextTransfer]_vars

-----------------------------------------------------------------------------
(* Properties *)

\* the numbers the properties name
Num(ipChars, fpChars) == MkDec(DigitsOf(Chars(ipChars)), DigitsOf(Chars(fpChars)))

\* the lines DD/MM with DD in 01..31 and MM in 01..12
ValidDateLines == {Pad2(d) \o <<"/">> \o Pad2(m) : d \in 1..31, m \in 1..12}

Last(seq) == seq[Len(seq)]

Returned == pc = "amountReturned"

\* a string of digits, commas and periods read as a decimal number, 0 when it is none
ReadDecimal(s) == OrZero(parseFloat(s))

CommaAsPoint(s) == [k \in 1..Len(s) |-> IF s[k] = "," THEN "." ELSE s[k]]
Without(s, c) == SelectSeq(s, LAMBDA x : x # c)

\* C1: the block 0211/FTSCY/WS95051, PEMBAYARAN INVOICE, 500.000,00 DB, 10.000.000,00
\* after one date line gives one transaction with the four lines as description,
\* debit 500000, credit 0, balance 10000000 and reference 0211/FTSCY/WS95051.
C1_InvoiceBlock ==
  (parsed # Null /\ text = InvoiceText) =>
    /\ Len(parsed.transactions) = 1
    /\ parsed.transactions[1].description =
         Chars("0211/FTSCY/WS95051\nPEMBAYARAN INVOICE\n500.000,00 DB\n10.000.000,00")
    /\ parsed.transactions[1].debitAmount = Num("500000", "")
    /\ parsed.transactions[1].creditAmount = Zero
    /\ parsed.transactions[1].balance = Num("10000000", "")
    /\ parsed.transactions[1].reference = Chars("0211/FTSCY/WS95051")

\* the words of s: its maximal runs of letters, digits and underscores
WordsOf(s) ==
  {SubSeq(s, p, p + RunLen(s, p, WordSet) - 1) :
     p \in {q \in 1..Len(s) : s[q] \in WordSet /\ (q = 1 \/ s[q - 1] \notin WordSet)}}

HasWordCR(s) == \E w \in WordsOf(s) : UpperStr(w) = Chars("CR")

\* C2: every emitted transaction has exactly one of debit and credit nonzero (no amount
\* is negative or missing): the credit when CR is a word of the block, else the debit.
C2_Polarity ==
  \A k \in 1..Len(transactions) :
    LET t == transactions[k]
    IN  /\ ~t.debitAmount.nan
        /\ ~t.creditAmount.nan
        /\ ~DecLess(t.debitAmount, Zero)
        /\ ~DecLess(t.creditAmount, Zero)
        /\ IF HasWordCR(t.description)
             THEN DecLess(Zero, t.creditAmount) /\ t.debitAmount = Zero
             ELSE DecLess(Zero, t.debitAmount) /\ t.creditAmount = Zero

C2_Witness ==
  /\ parsed # Null
  /\ \E k \in 1..Len(transactions) : transactions[k].creditAmount = Zero
  /\ \E k \in 1..Len(transactions) :
       transactions[k].debitAmount = Zero /\ transactions[k].description = Chars("BAYAR\n7,00\nCR")

\* C3: a line starts a block in the seek state, and ends one in the collect state
\* without being collected, exactly when it is a DD/MM line with DD in 01..31 and
\* MM in 01..12.
C3_DateBoundary ==
  [][/\ (pc = "seek" /\ i < Len(lines)) =>
          ((pc' = "collect") <=> (lines[i + 1] \in ValidDateLines))
     /\ (pc = "collect" /\ j < Len(lines)) =>
          ((pc' = "block" /\ j' = j) <=> (lines[j + 1] \in ValidDateLines))]_vars

C3_Witness ==
  /\ pc = "block"
  /\ lines[i + 1] = Chars("05/01")
  /\ descriptionLines = <<Chars("A 1,00"), Chars("32/01"), Chars("B 2,00 CR")>>

\* C4: a token with at most one period is read by the ordered policy: more than one
\* comma, the commas are dropped; one period and one comma, the period is dropped and
\* the comma is the decimal point; one comma, it is the decimal point; else the token
\* is read as it stands.  1.234.567,89 and 1,234,567.89 give 1234567.89, 1.234,00
\* gives 1234 and 50,5 gives 50.5.
C4_SeparatorPolicy ==
  Returned =>
    /\ (str = Chars("1.234.567,89") => amount = Num("1234567", "89"))
    /\ (str = Chars("1,234,567.89") => amount = Num("1234567", "89"))
    /\ (str = Chars("1.234,00") => amount = Num("1234", ""))
    /\ (str = Chars("50,5") => amount = Num("50", "5"))
    /\ (Range(str) \subseteq AmountSet /\ Count(str, ".") <= 1 /\ str # <<>>) =>
         amount = ReadDecimal(
           IF Count(str, ",") > 1 THEN Without(str, ",")
           ELSE IF Count(str, ".") = 1 /\ Count(str, ",") = 1 THEN CommaAsPoint(Without(str, "."))
           ELSE IF Count(str, ",") = 1 THEN CommaAsPoint(str)
           ELSE str)

C4_Witness == Returned /\ str = Chars("1.234,00") /\ amount = Num("1234", "")

\* C5 as stated: with more than one period the periods are dropped and the last comma
\* becomes the decimal point, however many commas there are.
C5_LastComma ==
  (Returned /\ Range(str) \subseteq AmountSet /\ Count(str, ".") > 1) =>
    amount = ReadDecimal(ReplaceLast(Without(str, "."), ",", "."))

\* C5: with more than one period the periods are dropped and the first comma becomes
\* the decimal point; the number read ends before a second comma.
C5_FirstComma ==
  (Returned /\ Range(str) \subseteq AmountSet /\ Count(str, ".") > 1) =>
    LET t == Without(str, ".")
    IN  amount = ReadDecimal(
          [k \in 1..Len(t) |->
             IF t[k] = "," /\ (\A m \in 1..(k - 1) : t[m] # ",") THEN "." ELSE t[k]])

C5_Witness == Returned /\ str = Chars("1.2.3,4,5") /\ amount = Num("123", "4")

\* C6: parseAmount always returns a number, and 0 for the empty token and for every
\* token without a digit.
C6_ZeroOnNoNumber ==
  Returned =>
    /\ ~amount.nan
    /\ ((\A k \in 1..Len(str) : ~IsDigit(str[k])) => amount = Zero)

C6_Witness == Returned /\ str = Chars("...") /\ amount = Zero

\* the lines after the date line lines[i0 + 1] up to the next valid date line or the end
BlockLines(ls, i0) ==
  LET stop == Least({k \in (i0 + 2)..Len(ls) : ls[k] \in ValidDateLines} \cup {Len(ls) + 1})
  IN  SubSeq(ls, i0 + 2, stop - 1)

Emits == pc = "block" /\ Len(transactions') = Len(transactions) + 1

RECURSIVE SumOf(_)
SumOf(xs) == IF xs = <<>> THEN Zero ELSE DecAdd(Head(xs), SumOf(Tail(xs)))

\* C8: in the statement parse returns, total_debits is the sum of the debit amounts and
\* total_credits the sum of the credit amounts of the returned transactions, 0 for none;
\* the opening and closing balances are no part of them.
C8_Totals ==
  parsed # Null =>
    /\ parsed.totalDebits =
         SumOf([k \in 1..Len(parsed.transactions) |-> parsed.transactions[k].debitAmount])
    /\ parsed.totalCredits =
         SumOf([k \in 1..Len(parsed.transactions) |-> parsed.transactions[k].creditAmount])
    /\ (parsed.transactions = <<>> => parsed.totalDebits = Zero /\ parsed.totalCredits = Zero)

C8_Witness ==
  /\ parsed # Null
  /\ Len(parsed.transactions) = 2
  /\ parsed.openingBalance # Zero
  /\ parsed.totalDebits # Zero
  /\ parsed.totalCredits # Zero

\* C9: the January 2025 statement gives period JANUARI 2025, opening balance 1000000,
\* the transactions 2025-01-05 (credit 500000, debit 0) and 2025-01-06 (debit 10000,
\* credit 0, balance 1490000) in this order, total credits 500000 and total debits 10000.
C9_JanuaryStatement ==
  (parsed # Null /\ text = JanuaryText) =>
    /\ parsed.period = Chars("JANUARI 2025")
    /\ parsed.openingBalance = Num("1000000", "")
    /\ Len(parsed.transactions) = 2
    /\ parsed.transactions[1].date = Chars("2025-01-05")
    /\ parsed.transactions[1].creditAmount = Num("500000", "")
    /\ parsed.transactions[1].debitAmount = Zero
    /\ parsed.transactions[2].date = Chars("2025-01-06")
    /\ parsed.transactions[2].debitAmount = Num("10000", "")
    /\ parsed.transactions[2].creditAmount = Zero
    /\ parsed.transactions[2].balance = Num("1490000", "")
    /\ parsed.totalCredits = Num("500000", "")
    /\ parsed.totalDebits = Num("10000", "")

C9_Witness == parsed # Null /\ text = JanuaryText /\ Len(parsed.transactions) = 2

HasSuggestions(r) == "suggestions" \in DOMAIN r.body /\ Len(r.body.suggestions) > 0

NothingPersisted == storage = <<>> /\ uploads = <<>> /\ statementLines = <<>>

\* C10: once parse has returned no transaction the run ends with a failure response
\* that carries the suggestions, and nothing is stored, recorded or inserted; no other
\* response carries suggestions.
C10_NoTransactions ==
  /\ (parsed # Null /\ Len(parsed.transactions) = 0 /\ pc # "parsed") =>
       /\ pc = "responded"
       /\ response.status = 400
       /\ "error" \in DOMAIN response.body
       /\ HasSuggestions(response)
       /\ NothingPersisted
  /\ (response # Null /\ ~(parsed # Null /\ Len(parsed.transactions) = 0)) =>
       ~HasSuggestions(response)

C10_Witness ==
  /\ pc = "responded"
  /\ text = HeaderOnlyText
  /\ parsed # Null
  /\ HasSuggestions(response)

\* C11: two calls of parseBCAStatement on the same text in the same year return the same
\* statement, whatever was parsed in between.
C11_Deterministic ==
  parsed # Null =>
    \A k \in 1..Len(runs) :
      (runs[k].text = text /\ runs[k].now = clock) => runs[k].result = parsed

C11_Witness ==
  /\ parsed # Null
  /\ Len(runs) = 2
  /\ runs[1].text = text
  /\ runs[1].now = clock
  /\ runs[2].text # text
  /\ runs[2].now # clock
  /\ Len(runs[2].result.transactions) = 3
  /\ Len(parsed.transactions) = 2

\* the number of days of month m of year y in the calendar
DaysInMonth(y, m) ==
  IF m = 2 THEN (IF (y % 4 = 0 /\ y % 100 # 0) \/ y % 400 = 0 THEN 29 ELSE 28)
  ELSE IF m \in {4, 6, 9, 11} THEN 30
  ELSE 31

\* the two numbers of a DD/MM line
DayOf(line) == parseInt(SubSeq(line, 1, 2))
MonthOf(line) == parseInt(SubSeq(line, 4, 5))

\* C12: the date of an emitted transaction has the year of the pre-scan and the month
\* and day of the date line of its block, and that day exists in that month of that year.
C12_RealDate ==
  [][Emits =>
       /\ Last(transactions').date = DateString(year, MonthOf(lines[i + 1]), DayOf(lines[i + 1]))
       /\ DayOf(lines[i + 1]) <= DaysInMonth(year, MonthOf(lines[i + 1]))]_vars

\* the recognition service has answered with success and a transcription
Transcribed == pc = "acquire" /\ ocrReply' # Null /\ ocrReply'.ok /\ ocrReply'.hasMessage

Failed(r) == r # Null /\ r.status = 400 /\ "error" \in DOMAIN r.body

\* C13 as stated: with a transcription, the run fails exactly when it is shorter than 50
\* characters, and goes on to the parser with it otherwise.
C13_FiftyCharacters ==
  [][Transcribed =>
       IF Len(ocrReply'.content) < MinTranscriptionLength
         THEN pc' = "responded" /\ Failed(response')
         ELSE pc' = "parse" /\ text' = ocrReply'.content]_vars

\* C13: with a transcription, the run fails exactly when it is shorter than 100
\* characters, and goes on to the parser with it otherwise.
C13_HundredCharacters ==
  [][Transcribed =>
       IF Len(ocrReply'.content) < MinOcrTextLength
         THEN pc' = "responded" /\ Failed(response')
         ELSE pc' = "parse" /\ text' = ocrReply'.content]_vars

C13_Witness ==
  /\ pc = "responded"
  /\ Failed(response)
  /\ ocrReply # Null
  /\ ocrReply.ok
  /\ ocrReply.hasMessage
  /\ Len(ocrReply.content) = MinOcrTextLength - 1
  /\ parsed = Null

\* the file is an image by its media type or by the ending of its name
ClassifiedImage(file) ==
  \/ \E p \in 1..(Len(file.type) - 5) : SubSeq(file.type, p, p + 5) = Chars("image/")
  \/ \E p \in 1..Len(file.name) :
       SubSeq(UpperStr(file.name), p, Len(file.name)) \in {Chars(".PNG"), Chars(".JPG"), Chars(".JPEG")}

Recognition == ClassifiedImage(req.file) \/ req.useOCR

\* C14: the text handed to the parser is the transcription of the one request to the
\* recognition service when the file is an image or recognition is asked for, else the
\* text the extractor makes of the document with no request to the service; the text is
\* acquired once, parsed once and never replaced.
C14_OneSource ==
  [][/\ ocrRequests' <= 1
     /\ (~Recognition => ocrRequests' = 0)
     /\ pc' = "acquire" => pc = "request"
     /\ pc' = "parse" =>
          /\ pc = "acquire"
          /\ IF Recognition
               THEN ocrRequests = 0 /\ ocrRequests' = 1 /\ text' = ocrReply'.content
               ELSE text' = extractTextFromPDF(req.file.data)
     /\ pc # "acquire" => text' = text
     /\ (pc = "acquire" /\ pc' = "responded") => (Recognition /\ text' = text)
     /\ pc = "parse" => pc' = "seek"
     /\ pc' = "parsed" => pc = "seek"
     /\ pc = "parsed" => pc' \in {"responded", "store"}]_vars

C14_Witness ==
  /\ pc = "parsed"
  /\ req.file.type = <<>>
  /\ ~req.useOCR
  /\ ocrRequests = 1
  /\ text = JanuaryText

\* the messages of the failures of the recognition path
RecognitionMessages ==
  {"OCR is not configured. Please use Excel export instead.",
   "OpenAI cannot process PDFs directly. Please upload as PNG/JPG image instead, or use Excel export.",
   "OpenAI OCR service failed: rate limit exceeded",
   "OpenAI returned no results",
   "OpenAI could not extract sufficient text from this file",
   "OCR failed to extract sufficient text. File may be corrupt or empty."}

\* C15: when the recognition path yields no text the run ends there: the response is
\* an error with only its message, the parser has not run, and nothing is stored,
\* recorded or inserted; nothing follows a response.
C15_RecognitionAborts ==
  [][/\ (pc = "acquire" /\ Recognition /\ pc' # "parse") =>
          /\ pc' = "responded"
          /\ Failed(response')
          /\ DOMAIN response'.body = {"error"}
          /\ response'.body.error \in RecognitionMessages
          /\ text' = <<>>
          /\ IdleParser'
          /\ NothingPersisted'
     /\ pc # "responded"]_vars

C15_Witness ==
  /\ pc = "responded"
  /\ response.body = [error |-> "OpenAI returned no results"]
  /\ ocrRequests = 1
  /\ IdleParser
  /\ NothingPersisted

\* C16: in the insert loop each step attempts the next transaction of the parsed list, a
\* duplicate-key conflict adds one to duplicateCount and the loop goes on; the loop is
\* left only with the success response, after the last transaction; insertedCount +
\* duplicateCount is the number of rows attempted less those that failed otherwise.
C16_DuplicatesCounted ==
  [][pc = "lines" =>
       /\ insertedCount + duplicateCount + failedLines = next
       /\ next <= Len(parsed.transactions)
       /\ Len(statementLines) = insertedCount
       /\ IF pc' = "lines"
            THEN /\ next < Len(parsed.transactions)
                 /\ next' = next + 1
                 /\ \/ /\ insertedCount' = insertedCount + 1
                       /\ statementLines' =
                            Append(statementLines,
                                   StatementLine(parsed.transactions[next + 1], uploads[Len(uploads)]))
                       /\ UNCHANGED <<duplicateCount, failedLines>>
                    \/ /\ duplicateCount' = duplicateCount + 1
                       /\ UNCHANGED <<insertedCount, failedLines, statementLines>>
                    \/ /\ failedLines' = failedLines + 1
                       /\ UNCHANGED <<insertedCount, duplicateCount, statementLines>>
            ELSE /\ pc' = "responded"
                 /\ next = Len(parsed.transactions)
                 /\ response'.status = 200
                 /\ response'.body.success
                 /\ response'.body.transactionCount = Len(parsed.transactions)
                 /\ response'.body.insertedCount = insertedCount
                 /\ response'.body.duplicateCount = duplicateCount
                 /\ insertedCount + duplicateCount <= Len(parsed.transactions)
                 /\ (failedLines = 0 => insertedCount + duplicateCount = Len(parsed.transactions))
                 /\ UNCHANGED <<storeVars, loopVars>>]_vars

C16_Witness ==
  /\ pc = "responded"
  /\ response.status = 200
  /\ "success" \in DOMAIN response.body
  /\ response.body.transactionCount = 3
  /\ response.body.duplicateCount = 2
  /\ response.body.insertedCount = 1
  /\ failedLines = 0
  /\ Len(statementLines) = 1
  /\ statementLines[1].transaction_date = parsed.transactions[2].date

\* C17: a PERIODE marker with a month name and a 4-digit year gives that month and year
\* as period and the first and the last day of that month as start and end date; with no
\* marker the period is empty and the dates are 1 and 31 January of the current year; the
\* balances are 0 when the text has no SALDO.
C17_PeriodAndDefaults ==
  parsed # Null =>
    /\ \A k \in 1..12, y \in PeriodYears :
         text = PeriodText(k, y) =>
           /\ parsed.period = MonthNames[k] \o <<" ">> \o y
           /\ parsed.startDate = DateString(parseInt(y), k, 1)
           /\ parsed.endDate = DateString(parseInt(y), k, DaysInMonth(parseInt(y), k))
    /\ ~ContainsNoCase(text, Chars("PERIODE")) =>
         /\ parsed.period = <<>>
         /\ parsed.startDate = DateString(clock, 1, 1)
         /\ parsed.endDate = DateString(clock, 1, 31)
    /\ ~ContainsNoCase(text, Chars("SALDO")) =>
         /\ parsed.openingBalance = Zero
         /\ parsed.closingBalance = Zero

\* the objects of a document of Documents, in order
ObjectsOf(data) ==
  LET srcs == SplitLines(data)
  IN  [k \in 1..Len(srcs) |-> CHOOSE o \in Objects : o.src = srcs[k]]

BlocksOf(objs, kind) ==
  LET kept == SelectSeq(objs, LAMBDA o : o.kind = kind)
  IN  [k \in 1..Len(kept) |-> kept[k].block]

\* C18: the extracted text is the literal strings of the document in order, joined by
\* line breaks, when it has any; else its hex strings in order, joined by line breaks;
\* and empty when it has neither.
C18_OneStrategy ==
  pc = "extracted" =>
    LET objs == IF req.file.data = <<>> THEN <<>> ELSE ObjectsOf(req.file.data)
        literal == BlocksOf(objs, "literal")
        hex == BlocksOf(objs, "hex")
    IN  /\ literal # <<>> => text = JoinWith(literal, LineBreak)
        /\ (literal = <<>> /\ hex # <<>>) => text = JoinWith(hex, LineBreak)
        /\ (literal = <<>> /\ hex = <<>>) => text = <<>>

C18_Witness ==
  /\ pc = "extracted"
  /\ req.file.data = Chars("<30362F3031>\n(05/01)\n<392c3030204442>")
  /\ text = Chars("05/01")

LineCount(description) == Count(description, "\n") + 1

\* C19: no block holds more than 50 collected lines, and no emitted description has
\* more than 50 lines.
C19_FiftyLines ==
  /\ Len(descriptionLines) <= MaxBlockLines
  /\ \A k \in 1..Len(transactions) : LineCount(transactions[k].description) <= MaxBlockLines

ValidDateCount(ls) == Cardinality({k \in 1..Len(ls) : ls[k] \in ValidDateLines})

\* C20: no collected line and no line of a description is a valid date line; the cursor
\* passes a line outside a block only if it is no valid date line, opens a block at
\* every valid date line it stands on and then moves past it and the collected lines,
\* none of them a valid date line, to the next valid date line, the end, or the line
\* after the last line the cap let in; the parse ends at the end of the text; each
\* emitted transaction is appended after the earlier ones with the date of its date line.
C20_DateLinesOpenBlocks ==
  [][/\ \A k \in 1..Len(descriptionLines') : descriptionLines'[k] \notin ValidDateLines
     /\ i <= i'
     /\ i' <= Len(lines')
     /\ pc = "seek" =>
          \/ pc' = "seek" /\ i' = i + 1 /\ lines[i + 1] \notin ValidDateLines
          \/ pc' = "collect" /\ i' = i /\ lines[i + 1] \in ValidDateLines
          \/ pc' = "parsed" /\ i = Len(lines)
                /\ parsed'.transactions = transactions
                /\ Len(transactions) <= ValidDateCount(lines)
     /\ pc = "block" =>
          /\ lines[i + 1] \in ValidDateLines
          /\ i' > i
          /\ \A k \in (i + 2)..i' : lines[k] \notin ValidDateLines
          /\ descriptionLines = SubSeq(lines, i + 2, i')
          /\ \/ i' = Len(lines)
             \/ lines[i' + 1] \in ValidDateLines
             \/ Len(descriptionLines) > MaxBlockLines
          /\ \/ transactions' = transactions
             \/ /\ Len(transactions') = Len(transactions) + 1
                /\ SubSeq(transactions', 1, Len(transactions)) = transactions
                /\ Last(transactions').date =
                     DateString(year, MonthOf(lines[i + 1]), DayOf(lines[i + 1]))
                /\ \A k \in 1..Len(descriptionLines) :
                     descriptionLines[k] \notin ValidDateLines
     /\ pc \notin {"parse", "block"} => transactions' = transactions]_vars

C20_Witness ==
  /\ pc = "parsed"
  /\ text = Chars("05/01\nMICRO 20,00\n06/01\n20,00CR\n07/01\nBAYAR\n7,00\nCR")
  /\ ValidDateCount(lines) = 3
  /\ Len(parsed.transactions) = 3
  /\ parsed.transactions[1].date = Chars("2026-01-05")
  /\ parsed.transactions[2].date = Chars("2026-01-06")
  /\ parsed.transactions[3].date = Chars("2026-01-07")

\* the joined text of a block holds one of the noise tokens, in any case of its letters
HasNoiseToken(full) ==
  \E w \in {"TANGGAL", "KETERANGAN", "CABANG", "MUTASI", "SALDO", "HALAMAN", "BERSAMBUNG"} :
    \E p \in 1..Len(full) :
      p + Len(w) - 1 <= Len(full) /\ UpperStr(SubSeq(full, p, p + Len(w) - 1)) = Chars(w)

\* C21: a collected block emits no transaction exactly when its joined text holds a noise
\* token, or is shorter than 3 characters once trimmed, or has no qualifying amount; the
\* step of a rejected block moves the cursor forward and leaves the transactions, and
\* the parse goes on.
C21_RejectedBlocks ==
  [][pc = "block" =>
       LET full == JoinWith(descriptionLines, LineBreak)
           rejected == \/ HasNoiseToken(full)
                       \/ Len(Trim(full)) < 3
                       \/ Amounts(JoinWith(descriptionLines, <<" ">>)) = <<>>
       IN  /\ (transactions' = transactions) <=> rejected
           /\ ~rejected =>
                /\ Len(transactions') = Len(transactions) + 1
                /\ SubSeq(transactions', 1, Len(transactions)) = transactions
           /\ i' > i
           /\ pc' = "seek"
           /\ parsed' = Null]_vars

C21_Witness ==
  /\ pc = "parsed"
  /\ text = Chars("05/01\nsaldo 5,00\n06/01\nBAYAR 7,00\n07/01\nx\n08/01\nTARIK 9,00 DB\n09/01\nTUNAI 0\n10/01")
  /\ Len(parsed.transactions) = 2
  /\ parsed.transactions[1].description = Chars("BAYAR 7,00")
  /\ parsed.transactions[2].description = Chars("TARIK 9,00 DB")

\* the numeric tokens of s in order: what is left of s between the characters that are
\* no digit, comma or period
NumericTokens(s) ==
  IF s = <<>> THEN <<>>
  ELSE SelectSeq(SplitLines([k \in 1..Len(s) |-> IF s[k] \in {"0", "1", "2", "3", "4", "5", "6", "7", "8", "9", ",", "."}
                                                   THEN s[k] ELSE "\n"]),
                 LAMBDA tok : tok # <<>>)

\* the values of the numeric tokens of a block that lie strictly between 0 and 100,000,000,000
KeptValues(collected) ==
  LET toks == JoinWith([k \in 1..Len(collected) |-> NumericTokens(collected[k])], <<>>)
      values == [k \in 1..Len(toks) |-> parseAmount(toks[k])]
  IN  SelectSeq(values, LAMBDA v : DecLess(Zero, v) /\ DecLess(v, Num("100000000000", "")))

AmountOf(t) == IF t.creditAmount = Zero THEN t.debitAmount ELSE t.creditAmount

\* C22: the amount of an emitted transaction is the first of the values kept from the
\* numeric tokens of its block, those strictly between 0 and 100,000,000,000 in their
\* order; its balance is the last of them when there are two or more and null when
\* there is one.
C22_FirstAndLastAmount ==
  [][Emits =>
       LET kept == KeptValues(descriptionLines)
           t == Last(transactions')
       IN  /\ Len(kept) >= 1
           /\ AmountOf(t) = kept[1]
           /\ t.balance = (IF Len(kept) > 1 THEN kept[Len(kept)] ELSE Null)]_vars

C22_Witness ==
  /\ parsed # Null
  /\ text = Chars("05/01\nKARTU 100.000.000.000,00 99.999.999.999,99 CR 5")
  /\ Len(parsed.transactions) = 1
  /\ parsed.transactions[1].creditAmount = Num("99999999999", "99")
  /\ parsed.transactions[1].balance = Num("5", "")

\* C23: every iteration of the main loop moves the cursor forward, by one line when the
\* line is skipped and past the block when one was collected, never beyond the end; the
\* loop is left exactly when the cursor is at the end of the lines; and every parse
\* returns.
C23_Terminates ==
  /\ [][/\ (pc = "seek" /\ pc' = "seek") => (i < Len(lines) /\ i' = i + 1)
        /\ (pc = "seek" /\ pc' = "collect") => (i < Len(lines) /\ j' = i + 1)
        /\ pc = "collect" => (j' >= j /\ (pc' = "collect" => j' = j + 1) /\ j' <= Len(lines))
        /\ pc = "block" => (pc' = "seek" /\ i' = j /\ i' > i /\ i' <= Len(lines))
        /\ (pc = "seek" /\ i = Len(lines)) => pc' = "parsed"
        /\ pc' = "parsed" => (pc = "seek" /\ i = Len(lines))]_vars
  /\ <>(pc = "parsed")

C23_Witness ==
  /\ pc = "parsed"
  /\ Len(lines) = MaxBlockLines + 4
  /\ i = Len(lines)
  /\ Len(parsed.transactions) = 1

\* the letters that follow a backslash in the escapes of a literal string
EscapeLetters == {"n", "r", "t", Backslash, "(", ")"}

\* an escape starts at position k of s: a backslash that is not itself escaped,
\* followed by one of the letters
EscapeStarts(s, k) ==
  /\ k < Len(s)
  /\ s[k] = Backslash
  /\ BackslashesBefore(s, k) % 2 = 0
  /\ s[k + 1] \in EscapeLetters

Escaped(s, k) == k > 1 /\ EscapeStarts(s, k - 1)

\* s with each escape decoded once, left to right
DecodedOnce(s) ==
  LET piece(k) ==
        IF EscapeStarts(s, k) THEN <<>>
        ELSE IF ~Escaped(s, k) THEN <<s[k]>>
        ELSE IF s[k] = "n" THEN <<"\n">>
        ELSE IF s[k] = "r" THEN <<>>
        ELSE IF s[k] = "t" THEN <<" ">>
        ELSE <<s[k]>>
  IN  JoinWith([k \in 1..Len(s) |-> piece(k)], <<>>)

\* raw is one literal string: an opening parenthesis, a content whose parentheses
\* are all escaped, and an unescaped closing parenthesis
OneLiteral(raw) ==
  /\ Len(raw) > 2
  /\ raw[1] = "("
  /\ raw[Len(raw)] = ")"
  /\ ~Escaped(raw, Len(raw))
  /\ \A k \in 2..(Len(raw) - 1) : raw[k] \in {"(", ")"} => Escaped(raw, k)

\* C24: a document that is one literal string gives its content, escaped parentheses
\* included, with every escape decoded once and independently of the others.
C24_LiteralStrings ==
  (pc = "extracted" /\ OneLiteral(req.file.data)) =>
    text = DecodedOnce(SubSeq(req.file.data, 2, Len(req.file.data) - 1))

\* the text of a run of hexadecimal digits read by pairs: the bytes 32..126 as their
\* characters, byte 10 as a line break, nothing for any other byte
BytesText(run) ==
  LET byte(k) == 16 * HexVal(run[2 * k - 1]) + HexVal(run[2 * k])
      char(k) == IF byte(k) = 10 THEN <<"\n">>
                 ELSE IF byte(k) \in 32..126 THEN <<Printable[byte(k) - 31]>>
                 ELSE <<>>
  IN  JoinWith([k \in 1..(Len(run) \div 2) |-> char(k)], <<>>)

\* the runs of hexadecimal digits between angle brackets of a document of Documents
\* that have an even length, in order
EvenRuns(data) ==
  LET srcs == IF data = <<>> THEN <<>> ELSE SplitLines(data)
      isRun(src) == /\ Len(src) > 2
                    /\ src[1] = "<"
                    /\ src[Len(src)] = ">"
                    /\ \A k \in 2..(Len(src) - 1) : src[k] \in HexSet
                    /\ Len(src) % 2 = 0
      found == SelectSeq(srcs, isRun)
  IN  [k \in 1..Len(found) |-> SubSeq(found[k], 2, Len(found[k]) - 1)]

NoLiteralString(data) == \A k \in 1..Len(data) : data[k] # "("

\* C25 as stated: with no literal string in the document, every run of even length
\* gives a block, in order of appearance.
C25_EveryEvenRun ==
  (pc = "extracted" /\ NoLiteralString(req.file.data)) =>
    text = JoinWith([k \in 1..Len(EvenRuns(req.file.data)) |->
                       BytesText(EvenRuns(req.file.data)[k])], LineBreak)

\* C25 amended: with no literal string in the document, the blocks are the texts of
\* the runs of even length that are not blank, in order of appearance; a run of odd
\* length and a run whose text is empty or white space give no block.
C25_EveryNonBlankRun ==
  (pc = "extracted" /\ NoLiteralString(req.file.data)) =>
    LET texts == [k \in 1..Len(EvenRuns(req.file.data)) |->
                    BytesText(EvenRuns(req.file.data)[k])]
    IN  text = JoinWith(SelectSeq(texts, LAMBDA t : Trim(t) # <<>>), LineBreak)

C25_Witness ==
  /\ pc = "extracted"
  /\ req.file.data = Chars("<30362F3031>\n<200A>\n<392c3030204442>")
  /\ text = Chars("06/01\n9,00 DB")

\* C26: the file is stored before the upload record is created and the record before
\* any statement line is inserted, each only after the step before it succeeded and
\* only in a run that is not a preview: every upload record has its stored file, every
\* statement line refers to a created upload record, a failed storage leaves no upload
\* record and a failed record no statement line.
C26_PersistenceOrder ==
  /\ [](/\ Len(uploads) <= Len(storage)
        /\ \A k \in 1..Len(uploads) : \E f \in 1..Len(storage) : storage[f] = uploads[k].file_url
        /\ \A k \in 1..Len(statementLines) :
             \E u \in 1..Len(uploads) : uploads[u].id = statementLines[k].upload_id
        /\ (storage # <<>> \/ uploads # <<>> \/ statementLines # <<>>) => ~req.previewOnly
        /\ (pc = "responded" /\ response.status = 400 /\ storage = <<>>) =>
             (uploads = <<>> /\ statementLines = <<>>)
        /\ (pc = "responded" /\ response.status = 400 /\ uploads = <<>>) => statementLines = <<>>)
  /\ [][/\ storage' # storage =>
             (pc = "store" /\ pc' = "record" /\ uploads = <<>> /\ UNCHANGED <<uploads, statementLines>>)
        /\ uploads' # uploads =>
             (pc = "record" /\ pc' = "lines" /\ Len(storage) = 1 /\ statementLines = <<>>
                /\ UNCHANGED <<storage, statementLines>>)
        /\ statementLines' # statementLines =>
             (pc = "lines" /\ Len(storage) = 1 /\ Len(uploads) = 1 /\ UNCHANGED <<storage, uploads>>)]_vars

C26_Witness ==
  /\ pc = "responded"
  /\ ~req.previewOnly
  /\ Len(storage) = 1
  /\ Len(uploads) = 1
  /\ uploads[1].file_url = storage[1]
  /\ Len(statementLines) = 3
  /\ \A k \in 1..3 : statementLines[k].upload_id = uploads[1].id

\* C27: a preview-only request never changes the stored files, the upload records or
\* the statement lines, and its preview carries the number of transactions parsed and
\* the first PreviewCount of them, in the order of the statement.
C27_PreviewOnly ==
  /\ [](req.previewOnly => (storage = <<>> /\ uploads = <<>> /\ statementLines = <<>>))
  /\ []((pc = "responded" /\ "preview" \in DOMAIN response.body) =>
          /\ req.previewOnly
          /\ response.body.transactionCount = Len(parsed.transactions)
          /\ Len(response.body.transactions) <= PreviewCount
          /\ Len(response.body.transactions) <= Len(parsed.transactions)
          /\ (Len(parsed.transactions) >= PreviewCount =>
                Len(response.body.transactions) = PreviewCount)
          /\ \A k \in 1..Len(response.body.transactions) :
               response.body.transactions[k] = parsed.transactions[k])
  /\ []((pc = "responded" /\ req.previewOnly /\ parsed # Null /\ Len(parsed.transactions) > 0) =>
          "preview" \in DOMAIN response.body)
  /\ [][req.previewOnly => UNCHANGED <<storage, uploads, statementLines>>]_vars

C27_Witness ==
  /\ pc = "responded"
  /\ req.previewOnly
  /\ "preview" \in DOMAIN response.body
  /\ response.body.transactionCount = PreviewCount + 1
  /\ Len(response.body.transactions) = PreviewCount
  /\ response.body.transactions[PreviewCount].date = Chars("2026-01-10")
  /\ storage = <<>> /\ uploads = <<>> /\ statementLines = <<>>

\* C28: whenever generateTransactionNumber hands a number to a handleSubmit, no row of
\* the table carries that number, whatever creations and deletions came before.
C28_UniqueNumbers ==
  [][\A u \in Users :
       (screens[u].pc = "idle" /\ screens'[u].pc = "numbered") =>
         \A tx \in pettyCash : tx.transaction_number # screens'[u].transactionNumber]_vars

\* C29: the sum of the withdrawals less the sum of the expenses of the table is never
\* negative.
C29_BalanceNotNegative == Balance(pettyCash) >= 0

\* C30: every fund transfer inserted has a positive amount, two sides that are not the
\* same account (not the same type unless both are bank accounts, and then not the same
\* bank account) and a bank account on each side whose type is bank; a submission that
\* is refused or fails inserts nothing and leaves the form and the open modal as they are.
C30_ValidTransfers ==
  /\ [](\A k \in 1..Len(fundTransfers) :
          LET t == fundTransfers[k]
          IN  /\ t.amount > 0
              /\ t.from_account_type = t.to_account_type => t.from_account_type = "bank"
              /\ (t.from_account_type = "bank" /\ t.to_account_type = "bank") =>
                   t.from_bank_account_id # t.to_bank_account_id
              /\ t.from_account_type = "bank" => t.from_bank_account_id \in BankAccountIds \ {""}
              /\ t.to_account_type = "bank" => t.to_bank_account_id \in BankAccountIds \ {""})
  /\ [][(alerted' # alerted /\ alerted' # TransferCreated) =>
          (modalOpen /\ UNCHANGED <<fundTransfers, formData, modalOpen>>)]_vars
  /\ [][fundTransfers' # fundTransfers =>
          (alerted' = TransferCreated /\ fundTransfers' = Append(fundTransfers, TransferData(formData)))]_vars

C30_Witness ==
  /\ Len(fundTransfers) = 1
  /\ fundTransfers[1].from_account_type = "bank"
  /\ fundTransfers[1].to_account_type = "bank"
  /\ modalOpen
  /\ formData.from_account_type = "bank"
  /\ formData.to_account_type = "bank"
  /\ formData.from_bank_account_id = "b1"
  /\ formData.to_bank_account_id = "b1"
  /\ formData.amount = 1
  /\ alerted = "Cannot transfer to the same bank account"

=============================================================================
